---- MODULE Spec2Model ----
(***************************************************************************)
(* Image-to-pattern conversion pipeline of the bracelet pattern designer:  *)
(* the image worker (smartResize, median cut, nearest / dithered mapping), *)
(* the main-thread fallback (nearest-neighbour resize, box median cut) and *)
(* the application state that dispatches between them.                     *)
(*                                                                         *)
(* Numbers are integers; every JavaScript floating-point expression of the *)
(* source is evaluated exactly as a ratio of integers (Math.round(n/d) is  *)
(* RoundDiv(n, d), Math.floor(n/d) is n \div d, Math.sqrt(n) is kept as    *)
(* the integer n under the root).                                          *)
(***************************************************************************)
EXTENDS Integers, Sequences, FiniteSets, TLC

VARIABLES
    \* ---- quantizer run (one median-cut call, stepped per loop iteration)
    quantizer,      \* "worker" | "fallback" | "none": which quantizer runs
    colors,         \* the input colour list (sequence of <<r,g,b>>)
    maxColors,      \* the maxColors argument
    buckets,        \* worker: buckets / fallback: boxes (sequence of colour lists)
    iteration,      \* fallback: the loop counter `iteration`
    qpc,            \* "split" | "done" | "threw" | "idle"
    qPalette,       \* the palette returned (sequence of hex strings), <<>> before
    \* ---- resampler call (one smartResize call)
    imageData,      \* the source bitmap [width, height, data]; data is row-major RGBA
    request,        \* [targetWidth, targetHeight, mode, detailBoost] as passed in
    crop,           \* [cropX, cropY, cropWidth, cropHeight] handed to resizeWithQuality
    dst,            \* [width, height]: targetWidth, targetHeight after the mode switch
    resized,        \* the bitmap resizeWithQuality returned (sequence of RGBA)
    rpc,            \* "call" | "done" | "idle"
    \* ---- application state (the `state` object, the import form, the worker)
    uploadedImage,      \* state.uploadedImage as a bitmap; NoImage for null
    form,               \* the values of the import form's fields
    palette,            \* state.palette: sequence of [hex, label] (designer: and id)
    imageWorker,        \* whether state.imageWorker holds a Worker
    workerReady,        \* state.workerReady
    inbox,              \* messages posted to the worker, not yet handled
    outbox,             \* messages the worker posted, not yet delivered
    processedImageData, \* state.processedImageData: <<>> for null, else <<result>>
    sendToGridEnabled,  \* the 'Send to Grid' button is enabled
    notification,       \* the last notification shown
    budget,             \* processing requests the user may still issue
    \* ---- colour conversion call (one hexToRgb call)
    hexFn,          \* "shared" | "worker" | "none": which hexToRgb is called
    hexIn,          \* the string passed in (sequence of characters)
    hexOut,         \* the {r, g, b} returned as <<r, g, b>>, <<>> before
    \* ---- dithering pass (one mapPixelsWithDithering call, stepped per pixel visit)
    ditherIn,       \* the bitmap handed to the mapper: [width, height, data]
    ditherPalette,  \* the palette handed to the mapper (sequence of hex strings)
    dithered,       \* the working copy `dithered` (sequence of RGBA)
    ditherOut,      \* `result`: the palette entries (or Null) pushed so far
    ditherPos,      \* iterations of the inner loop done so far
    dpc,            \* "pass" | "done" | "idle"
    \* ---- designer (the grid, the brush, the saved design; with `palette`
    \* and `processedImageData` above)
    gridWidth,      \* state.gridWidth
    gridHeight,     \* state.gridHeight
    gridData,       \* state.gridData: rows of cells (hex string or Null)
    gridShared,     \* state.gridData is the array state.processedImageData.pixelData
    selectedColor,  \* state.selectedColor: <<>> for null, else <<colour object>>
    saved,          \* the design in localStorage: <<>> for none, else <<design>>
    steps           \* designer operations done so far

qvars == <<quantizer, colors, maxColors, buckets, iteration, qpc, qPalette>>
rvars == <<imageData, request, crop, dst, resized, rpc>>
avars == <<uploadedImage, form, palette, imageWorker, workerReady, inbox, outbox,
           processedImageData, sendToGridEnabled, notification, budget>>
hvars == <<hexFn, hexIn, hexOut>>
\* the state outside the quantizer, the resampler and the application
dvars == <<ditherIn, ditherPalette, dithered, ditherOut, ditherPos, dpc>>
gvars == <<gridWidth, gridHeight, gridData, gridShared, selectedColor, saved, steps>>
xvars == <<hvars, dvars, gvars>>
vars == <<qvars, rvars, avars, xvars>>

\* ------------------------------------------------------------ bounds
\* longest colour list given to a quantizer run
MaxPixels == 4
\* largest maxColors given to a quantizer run
MaxMaxColors == 4
\* largest source bitmap side given to a resampler call
MaxSrc == 4
\* largest targetWidth / targetHeight given to a resampler call
MaxTarget == 5
\* a target height more than twice the smallest target width
TallTarget == 9
\* largest side of a request posted straight to the worker
MaxWorkerTarget == 3
\* processing requests issued in one session
MaxRequests == 2
\* length of the long colour list given to a quantizer run
RampLen == 22
\* largest side of a bitmap given to a dithering pass
MaxDitherSide == 5
\* longest string given to a hexToRgb call
MaxHexLen == 7
\* designer operations followed in one run
MaxSteps == 3

\* ------------------------------------------------------------ arithmetic
Min2(a, b) == IF a <= b THEN a ELSE b
Max2(a, b) == IF a >= b THEN a ELSE b
Abs(a) == IF a < 0 THEN -a ELSE a

\* Math.round(n / d) for d > 0: ties go up
RoundDiv(n, d) == (2 * n + d) \div (2 * d)

\* Math.ceil(n / d) for d > 0
CeilDiv(n, d) == -((-n) \div d)

\* floor(Math.sqrt(n)) for n >= 0
ISqrt(n) == CHOOSE k \in 0..n : k * k <= n /\ (k + 1) * (k + 1) > n

IsSquare(n) == ISqrt(n) * ISqrt(n) = n

\* the sequence s with every element evaluated once (a function constructor
\* is otherwise re-evaluated at each application)
Tuple(s) == s \o <<>>

RECURSIVE SumSeq(_)
SumSeq(s) == IF s = <<>> THEN 0 ELSE Head(s) + SumSeq(Tail(s))

\* ------------------------------------------------------------ ColorMath
\* A hex string is the sequence of its characters: Hash for '#', 0..15 for a
\* hex digit (either case), BadChar for any other character.
Hash == 0 - 1
BadChar == 16
HexDigits == 0..15

\* worker rgbToHex / colorUtils rgbToHex: '#' then two digits per channel
rgbToHex(r, g, b) ==
    <<Hash, r \div 16, r % 16, g \div 16, g % 16, b \div 16, b % 16>>

\* /^#?([a-f\d]{2})([a-f\d]{2})([a-f\d]{2})$/i
HexMatch(hex) ==
    LET body == IF Len(hex) > 0 /\ hex[1] = Hash THEN Tail(hex) ELSE hex
    IN  IF Len(body) = 6 /\ \A i \in 1..6 : body[i] \in HexDigits
        THEN <<16 * body[1] + body[2], 16 * body[3] + body[4], 16 * body[5] + body[6]>>
        ELSE <<>>

\* the worker's hexToRgb: black when the string does not match
workerHexToRgb(hex) == IF HexMatch(hex) = <<>> THEN <<0, 0, 0>> ELSE HexMatch(hex)

\* the shared hexToRgb (colorUtils.js, app.js): white when it does not match
hexToRgb(hex) == IF HexMatch(hex) = <<>> THEN <<255, 255, 255>> ELSE HexMatch(hex)

\* ------------------------------------------------------------ worker median cut
\* value of a pop() on an empty array, and of an out-of-range typed-array read
Undefined == <<>>

Channel(cs, ch) == Tuple([i \in 1..Len(cs) |-> cs[i][ch]])

RECURSIVE SeqMin(_, _)
SeqMin(s, init) == IF s = <<>> THEN init ELSE SeqMin(Tail(s), Min2(init, Head(s)))

RECURSIVE SeqMax(_, _)
SeqMax(s, init) == IF s = <<>> THEN init ELSE SeqMax(Tail(s), Max2(init, Head(s)))

\* getColorRanges: per-channel max - min, from minX = 255 and maxX = 0
getColorRanges(cs) ==
    Tuple([ch \in 1..3 |-> SeqMax(Channel(cs, ch), 0) - SeqMin(Channel(cs, ch), 255)])

\* indices.sort((a, b) => colors[a*3+channel] - colors[b*3+channel]): a stable
\* ascending sort by one channel
\* the insertion of a sort whose comparator is b[channel] - a[channel]
RECURSIVE InsertByChannelDescending(_, _, _)
InsertByChannelDescending(sorted, c, ch) ==
    IF sorted = <<>> THEN <<c>>
    ELSE IF c[ch] > Head(sorted)[ch] THEN <<c>> \o sorted
    ELSE <<Head(sorted)>> \o InsertByChannelDescending(Tail(sorted), c, ch)

RECURSIVE InsertByChannel(_, _, _)
InsertByChannel(sorted, c, ch) ==
    IF sorted = <<>> THEN <<c>>
    ELSE IF c[ch] < Head(sorted)[ch] THEN <<c>> \o sorted
    ELSE <<Head(sorted)>> \o InsertByChannel(Tail(sorted), c, ch)

RECURSIVE SortByChannel(_, _)
SortByChannel(cs, ch) ==
    IF cs = <<>> THEN <<>>
    ELSE InsertByChannel(SortByChannel(SubSeq(cs, 1, Len(cs) - 1), ch), cs[Len(cs)], ch)

\* the worker's split point: Math.floor(numColors / 2)
splitMedian(n) == n \div 2

\* splitBucket: sort by the channel and cut at the count median
splitBucket(cs, ch) ==
    LET sorted == SortByChannel(cs, ch)
        median == splitMedian(Len(cs))
    IN  <<SubSeq(sorted, 1, median), SubSeq(sorted, median + 1, Len(cs))>>

\* the choice with > in place of >=: equal ranges go to the later channel
pickChannelLater(rg) ==
    IF rg[1] > rg[2] THEN (IF rg[1] > rg[3] THEN 1 ELSE 3)
    ELSE (IF rg[2] > rg[3] THEN 2 ELSE 3)

\* ranges.r >= ranges.g ? (ranges.r >= ranges.b ? 0 : 2) : (ranges.g >= ranges.b ? 1 : 2)
pickChannel(rg) ==
    IF rg[1] >= rg[2] THEN (IF rg[1] >= rg[3] THEN 1 ELSE 3)
    ELSE (IF rg[2] >= rg[3] THEN 2 ELSE 3)

\* the worker's starting maxRange of the bucket scan
scanStart == 0 - 1

\* the for loop over the buckets: skips count < 2, keeps the first bucket
\* whose largest range is strictly above maxRange; idx = 0 stands for -1
RECURSIVE scanBuckets(_, _, _, _, _)
scanBuckets(bs, i, maxRange, idx, ch) ==
    IF i > Len(bs) THEN [idx |-> idx, channel |-> ch]
    ELSE IF Len(bs[i]) < 2 THEN scanBuckets(bs, i + 1, maxRange, idx, ch)
    ELSE LET rg == getColorRanges(bs[i])
             range == Max2(rg[1], Max2(rg[2], rg[3]))
         IN  IF range > maxRange
             THEN scanBuckets(bs, i + 1, range, i, pickChannel(rg))
             ELSE scanBuckets(bs, i + 1, maxRange, idx, ch)

\* buckets.splice(i, 1, b1, b2)
Splice(bs, i, b1, b2) == SubSeq(bs, 1, i - 1) \o <<b1, b2>> \o SubSeq(bs, i + 1, Len(bs))

\* if (maxColors < 2) maxColors = 2; if (maxColors > 256) maxColors = 256;
clampMaxColors(mc) == IF mc < 2 THEN 2 ELSE IF mc > 256 THEN 256 ELSE mc

\* a loop test that stops one bucket late: buckets.length <= maxColors
workerContinuesLate(bs, mc) ==
    Len(bs) <= clampMaxColors(mc) /\ scanBuckets(bs, 1, scanStart, 0, 1).idx # 0

\* whether the while loop of medianCutOptimized takes another iteration
workerContinues(bs, mc) ==
    Len(bs) < clampMaxColors(mc) /\ scanBuckets(bs, 1, scanStart, 0, 1).idx # 0

\* one iteration of the while loop of medianCutOptimized
workerIteration(bs) ==
    LET pick == scanBuckets(bs, 1, scanStart, 0, 1)
        split == splitBucket(bs[pick.idx], pick.channel)
    IN  Splice(bs, pick.idx, split[1], split[2])

\* averageColors: component-wise Math.round(sum / count)
averageColors(cs) ==
    Tuple([ch \in 1..3 |-> RoundDiv(SumSeq(Channel(cs, ch)), Len(cs))])

\* the palette loop of medianCutOptimized
workerPalette(bs) ==
    Tuple([i \in 1..Len(bs) |->
            LET avg == averageColors(bs[i]) IN rgbToHex(avg[1], avg[2], avg[3])])

RECURSIVE workerBuckets(_, _)
workerBuckets(bs, mc) ==
    IF workerContinues(bs, mc) THEN workerBuckets(workerIteration(bs), mc) ELSE bs

medianCutOptimized(cs, mc) == workerPalette(workerBuckets(<<cs>>, mc))

\* ------------------------------------------------------------ fallback median cut
\* the fallback's safety valve: while (boxes.length < maxColors && iteration < 20)
IterationCeiling == 20

\* reading pixel.r of an undefined array element throws a TypeError
hasUndefined(box) == \E i \in 1..Len(box) : box[i] = Undefined

\* getColorRange: 0 for an empty box, else the largest per-channel range
getColorRange(box) ==
    IF box = <<>> THEN 0
    ELSE LET rg == getColorRanges(box) IN Max2(rg[1], Max2(rg[2], rg[3]))

\* the for loop over the boxes: maxBox = 0, maxRange = 0, strict comparison
RECURSIVE scanBoxes(_, _, _, _)
scanBoxes(bs, i, maxRange, maxBox) ==
    IF i > Len(bs) THEN maxBox
    ELSE IF getColorRange(bs[i]) > maxRange
         THEN scanBoxes(bs, i + 1, getColorRange(bs[i]), i)
         ELSE scanBoxes(bs, i + 1, maxRange, maxBox)

\* Array.prototype.pop: the last element (undefined when empty) and the rest
PopValue(box) == IF box = <<>> THEN Undefined ELSE box[Len(box)]
PopRest(box) == IF box = <<>> THEN <<>> ELSE SubSeq(box, 1, Len(box) - 1)

\* the two "one box is empty" repairs that end splitBox
repairBoxes(box1, box2) ==
    LET a1 == IF box1 = <<>> THEN <<PopValue(box2)>> ELSE box1
        a2 == IF box1 = <<>> THEN PopRest(box2) ELSE box2
        b2 == IF a2 = <<>> THEN <<PopValue(a1)>> ELSE a2
        b1 == IF a2 = <<>> THEN PopRest(a1) ELSE a1
    IN  <<b1, b2>>

\* splitBox: partition at the value midpoint of the widest channel (ties
\* r over g over b), pixel[axis] < (min + max) / 2 going to box1
splitBox(pixels) ==
    LET rg == getColorRanges(pixels)
        axis == IF rg[1] >= rg[2] /\ rg[1] >= rg[3] THEN 1
                ELSE IF rg[2] >= rg[3] THEN 2 ELSE 3
        mid2 == SeqMin(Channel(pixels, axis), 255) + SeqMax(Channel(pixels, axis), 0)
        Low(p) == 2 * p[axis] < mid2
        High(p) == ~(2 * p[axis] < mid2)
    IN  repairBoxes(SelectSeq(pixels, Low), SelectSeq(pixels, High))

\* whether the while loop of quantizeColorsMedianCut takes another iteration
fallbackContinues(bs, it, mc) == Len(bs) < mc /\ it < IterationCeiling

\* the statement reached next (getColorRange in the loop, getAverageColor
\* after it) reads a box that holds an undefined element
fallbackThrows(bs) == \E i \in 1..Len(bs) : hasUndefined(bs[i])

\* one iteration of the while loop of quantizeColorsMedianCut
fallbackIteration(bs) ==
    LET maxBox == scanBoxes(bs, 1, 0, 1)
        split == splitBox(bs[maxBox])
    IN  Splice(bs, maxBox, split[1], split[2])

\* getAverageColor: black for an empty box
getAverageColor(box) == IF box = <<>> THEN <<0, 0, 0>> ELSE averageColors(box)

\* boxes.map(box => ({hex: rgbToHex(avg.r, avg.g, avg.b), label: ''})): the hex values
fallbackPalette(bs) ==
    Tuple([i \in 1..Len(bs) |->
            LET avg == getAverageColor(bs[i]) IN rgbToHex(avg[1], avg[2], avg[3])])

\* the loop run to its end: the boxes left, or threw
RECURSIVE fallbackBoxes(_, _, _)
fallbackBoxes(bs, it, mc) ==
    IF fallbackThrows(bs) THEN [threw |-> TRUE, boxes |-> bs]
    ELSE IF fallbackContinues(bs, it, mc)
         THEN fallbackBoxes(fallbackIteration(bs), it + 1, mc)
         ELSE [threw |-> FALSE, boxes |-> bs]

\* ------------------------------------------------------------ resampler
\* smallest target side the import form accepts
MinTarget == 4

\* pixel p (0-based, row-major) of a bitmap's data: a read outside the typed
\* array gives undefined
PixelAt(data, p) == IF p >= 0 /\ p < Len(data) THEN data[p + 1] ELSE Undefined

\* red channel of pixel (x, y), as detectSubjectBounds reads it
Red(img, x, y) == img.data[y * img.width + x + 1][1]

\* Sobel gx and gy of detectSubjectBounds at an interior pixel
sobelGx(img, x, y) ==
    (0 - Red(img, x - 1, y - 1)) + Red(img, x + 1, y - 1)
    - 2 * Red(img, x - 1, y) + 2 * Red(img, x + 1, y)
    - Red(img, x - 1, y + 1) + Red(img, x + 1, y + 1)

sobelGy(img, x, y) ==
    (0 - Red(img, x - 1, y - 1)) - 2 * Red(img, x, y - 1) - Red(img, x + 1, y - 1)
    + Red(img, x - 1, y + 1) + 2 * Red(img, x, y + 1) + Red(img, x + 1, y + 1)

\* const threshold = 30
EdgeThreshold == 30

\* edges[y*width+x] > threshold, edges being a Uint8Array holding
\* Math.min(255, Math.sqrt(gx*gx + gy*gy)) truncated to an integer
isEdge(img, x, y) ==
    /\ x >= 1 /\ x < img.width - 1 /\ y >= 1 /\ y < img.height - 1
    /\ sobelGx(img, x, y) * sobelGx(img, x, y) + sobelGy(img, x, y) * sobelGy(img, x, y)
         >= (EdgeThreshold + 1) * (EdgeThreshold + 1)

RECURSIVE SetMin(_, _)
SetMin(S, init) ==
    IF S = {} THEN init ELSE LET e == CHOOSE e \in S : TRUE IN SetMin(S \ {e}, Min2(init, e))

RECURSIVE SetMax(_, _)
SetMax(S, init) ==
    IF S = {} THEN init ELSE LET e == CHOOSE e \in S : TRUE IN SetMax(S \ {e}, Max2(init, e))

\* padding = Math.min(width, height) * 0.05, kept in twentieths of a pixel
PaddingDen == 20

\* detectSubjectBounds: the box of the pixels above the threshold, from
\* minX = width, maxX = 0, minY = height, maxY = 0, padded and clamped
detectSubjectBounds(img) ==
    LET edgeXs == {x \in 0..(img.width - 1) : \E y \in 0..(img.height - 1) : isEdge(img, x, y)}
        edgeYs == {y \in 0..(img.height - 1) : \E x \in 0..(img.width - 1) : isEdge(img, x, y)}
        pad == Min2(img.width, img.height)
        minX == Max2(0, PaddingDen * SetMin(edgeXs, img.width) - pad)
        maxX == Min2(PaddingDen * (img.width - 1), PaddingDen * SetMax(edgeXs, 0) + pad)
        minY == Max2(0, PaddingDen * SetMin(edgeYs, img.height) - pad)
        maxY == Min2(PaddingDen * (img.height - 1), PaddingDen * SetMax(edgeYs, 0) + pad)
    IN  [x |-> minX \div PaddingDen,
         y |-> minY \div PaddingDen,
         width |-> CeilDiv(maxX - minX, PaddingDen),
         height |-> CeilDiv(maxY - minY, PaddingDen)]

\* sourceRatio > targetRatio
isWider(img, tw, th) == img.width * th > tw * img.height

\* a 'fit' that scales by the inverse of the source's aspect ratio
fitSizeInverted(img, tw, th) ==
    IF isWider(img, tw, th)
    THEN [width |-> tw, height |-> RoundDiv(tw * img.width, img.height)]
    ELSE [width |-> RoundDiv(th * img.height, img.width), height |-> th]

\* case 'fit': the destination size; the crop stays the full source
fitSize(img, tw, th) ==
    IF isWider(img, tw, th)
    THEN [width |-> tw, height |-> RoundDiv(tw * img.height, img.width)]
    ELSE [width |-> RoundDiv(th * img.width, img.height), height |-> th]

\* case 'fill': the centred crop of the target's aspect ratio
fillCrop(img, tw, th) ==
    IF isWider(img, tw, th)
    THEN LET cw == RoundDiv(img.height * tw, th)
         IN  [cropX |-> RoundDiv(img.width - cw, 2), cropY |-> 0,
              cropWidth |-> cw, cropHeight |-> img.height]
    ELSE LET chh == RoundDiv(img.width * th, tw)
         IN  [cropX |-> 0, cropY |-> RoundDiv(img.height - chh, 2),
              cropWidth |-> img.width, cropHeight |-> chh]

\* let cropX = 0, cropY = 0, cropWidth = srcWidth, cropHeight = srcHeight
fullCrop(img) ==
    [cropX |-> 0, cropY |-> 0, cropWidth |-> img.width, cropHeight |-> img.height]

\* the crop rectangle smartResize hands to resizeWithQuality
cropFor(img, tw, th, mode) ==
    IF mode = "fill" THEN fillCrop(img, tw, th)
    ELSE IF mode = "centeredCrop"
         THEN LET b == detectSubjectBounds(img)
              IN  [cropX |-> b.x, cropY |-> b.y, cropWidth |-> b.width, cropHeight |-> b.height]
         ELSE fullCrop(img)

\* the destination size smartResize hands to resizeWithQuality
dstFor(img, tw, th, mode) ==
    IF mode = "fit" THEN fitSize(img, tw, th) ELSE [width |-> tw, height |-> th]

\* an integer stored into a Uint8Array is kept modulo 256
ToUint8(v) == v % 256

\* bilinearSample at the source coordinate (xn / dw, yn / dh)
bilinearSample(img, xn, dw, yn, dh) ==
    LET x1 == xn \div dw
        y1 == yn \div dh
        x2 == Min2(x1 + 1, img.width - 1)
        y2 == Min2(y1 + 1, img.height - 1)
        dxn == xn - x1 * dw
        dyn == yn - y1 * dh
        p11 == PixelAt(img.data, y1 * img.width + x1)
        p21 == PixelAt(img.data, y1 * img.width + x2)
        p12 == PixelAt(img.data, y2 * img.width + x1)
        p22 == PixelAt(img.data, y2 * img.width + x2)
    IN  IF Undefined \in {p11, p21, p12, p22} THEN <<0, 0, 0, 0>>
        ELSE Tuple([i \in 1..4 |->
                ToUint8(RoundDiv((p11[i] * (dw - dxn) + p21[i] * dxn) * (dh - dyn)
                                 + (p12[i] * (dw - dxn) + p22[i] * dxn) * dyn,
                                 dw * dh))])

\* Math.max(0, Math.min(255, v))
Clamp255(v) == Max2(0, Min2(255, v))

\* sampleWithSharpening around the nearest source pixel: kernel centre 5,
\* the four orthogonal neighbours -1, alpha the mean over the nine taps
sampleWithSharpening(img, xn, dw, yn, dh) ==
    LET cx == RoundDiv(xn, dw)
        cy == RoundDiv(yn, dh)
        Tap(kx, ky) == img.data[Max2(0, Min2(img.height - 1, cy + ky)) * img.width
                                + Max2(0, Min2(img.width - 1, cx + kx)) + 1]
        Sharp(i) == 5 * Tap(0, 0)[i] - Tap(0 - 1, 0)[i] - Tap(1, 0)[i]
                    - Tap(0, 0 - 1)[i] - Tap(0, 1)[i]
        alpha == SumSeq([k \in 1..9 |-> Tap(((k - 1) % 3) - 1, ((k - 1) \div 3) - 1)[4]])
    IN  <<Clamp255(Sharp(1)), Clamp255(Sharp(2)), Clamp255(Sharp(3)), ToUint8(RoundDiv(alpha, 9))>>

\* resizeWithQuality: one sample per destination pixel, row-major
resizeWithQuality(img, dw, dh, c, detailBoost) ==
    Tuple([k \in 1..(dw * dh) |->
            LET x == (k - 1) % dw
                y == (k - 1) \div dw
                xn == c.cropX * dw + x * c.cropWidth
                yn == c.cropY * dh + y * c.cropHeight
            IN  IF detailBoost >= 1 /\ detailBoost = 2
                THEN sampleWithSharpening(img, xn, dw, yn, dh)
                ELSE bilinearSample(img, xn, dw, yn, dh)])

smartResize(img, tw, th, mode, detailBoost) ==
    resizeWithQuality(img, dstFor(img, tw, th, mode).width, dstFor(img, tw, th, mode).height,
                      cropFor(img, tw, th, mode), detailBoost)

\* ------------------------------------------------------------ worker mapping
\* a null cell of a pixel grid
Null == <<>>

\* alpha below which a pixel is transparent: if (a < 128)
AlphaThreshold == 128

\* squared RGB distance of findNearestColor
dist2(c, p) ==
    (c[1] - p[1]) * (c[1] - p[1]) + (c[2] - p[2]) * (c[2] - p[2])
    + (c[3] - p[3]) * (c[3] - p[3])

\* a search loop whose test is dist <= minDist: the last closest entry wins
RECURSIVE nearestFromLast(_, _, _, _, _)
nearestFromLast(c, paletteRGB, i, minDist, nearest) ==
    IF i > Len(paletteRGB) THEN nearest
    ELSE IF minDist < 0 \/ dist2(c, paletteRGB[i]) <= minDist
         THEN nearestFromLast(c, paletteRGB, i + 1, dist2(c, paletteRGB[i]), i)
         ELSE nearestFromLast(c, paletteRGB, i + 1, minDist, nearest)

\* the loop of findNearestColor from entry i on: dist < minDist keeps the
\* first closest entry; minDist = 0 - 1 stands for Infinity
RECURSIVE nearestFrom(_, _, _, _, _)
nearestFrom(c, paletteRGB, i, minDist, nearest) ==
    IF i > Len(paletteRGB) THEN nearest
    ELSE IF minDist < 0 \/ dist2(c, paletteRGB[i]) < minDist
         THEN nearestFrom(c, paletteRGB, i + 1, dist2(c, paletteRGB[i]), i)
         ELSE nearestFrom(c, paletteRGB, i + 1, minDist, nearest)

\* findNearestColor: the (1-based) index of the nearest palette entry; an
\* undefined channel makes every distance NaN and leaves nearest = 0 (here 1)
findNearestColor(c, paletteRGB) ==
    IF c = Undefined THEN 1 ELSE nearestFrom(c, paletteRGB, 1, 0 - 1, 1)

\* palette.map(hexToRgb) in the worker
paletteToRGB(pal) == Tuple([i \in 1..Len(pal) |-> workerHexToRgb(pal[i])])

\* Math.trunc(y * Math.sqrt(n)): a row boundary of the 2D conversion
rowStart(y, n) == IF IsSquare(n) THEN y * ISqrt(n) ELSE ISqrt(y * y * n)

\* number of y with y < n / Math.sqrt(n)
rowCount(n) == IF IsSquare(n) THEN ISqrt(n) ELSE ISqrt(n) + 1

\* Array.prototype.slice(from, to) with 0-based bounds, clipped to the array
Slice(s, from, to) == SubSeq(s, Min2(from, Len(s)) + 1, Min2(to, Len(s)))

\* "Convert to 2D array": width = Math.sqrt(pixels.length / 4), rows
\* result.slice(y * width, (y + 1) * width) for y < height
toGrid(result, n) ==
    Tuple([y \in 1..rowCount(n) |-> Slice(result, rowStart(y - 1, n), rowStart(y, n))])

\* a mapping that pushes each opaque pixel's own colour
ownColourFlat(pixels, pal) ==
    Tuple([k \in 1..Len(pixels) |->
            IF pixels[k][4] < AlphaThreshold THEN Null
            ELSE rgbToHex(pixels[k][1], pixels[k][2], pixels[k][3])])

\* the flat result of mapPixelsToNearest
nearestFlat(pixels, pal) ==
    LET paletteRGB == paletteToRGB(pal)
    IN  Tuple([k \in 1..Len(pixels) |->
                IF pixels[k][4] < AlphaThreshold THEN Null
                ELSE pal[findNearestColor(pixels[k], paletteRGB)]])

mapPixelsToNearest(pixels, pal) == toGrid(nearestFlat(pixels, pal), Len(pixels))

\* clamp(pixels[idx] + err * weight) with weight = wn / 16
clampedAdd(v, err, wn) == Clamp255(RoundDiv(16 * v + err * wn, 16))

\* distributeError onto pixel (x, y) of a w-wide, h-high working copy
distributeError(work, w, h, x, y, err, wn) ==
    IF x < 0 \/ x >= w \/ y < 0 \/ y >= h THEN work
    ELSE [work EXCEPT ![y * w + x + 1] =
            <<clampedAdd(@[1], err[1], wn), clampedAdd(@[2], err[2], wn),
              clampedAdd(@[3], err[3], wn), @[4]>>]

\* the Floyd-Steinberg pass over a w x h working copy from pixel k (0-based)
\* on: returns the flat result
RECURSIVE ditherFrom(_, _, _, _, _, _, _)
ditherFrom(work, pal, paletteRGB, w, h, k, out) ==
    IF k >= w * h THEN out
    ELSE LET x == k % w
             y == k \div w
             old == work[k + 1]
         IN  IF old[4] < AlphaThreshold
             THEN ditherFrom(work, pal, paletteRGB, w, h, k + 1, Append(out, Null))
             ELSE LET nearest == findNearestColor(old, paletteRGB)
                      new == paletteRGB[nearest]
                      err == <<old[1] - new[1], old[2] - new[2], old[3] - new[3]>>
                      w1 == distributeError(work, w, h, x + 1, y, err, 7)
                      w2 == distributeError(w1, w, h, x - 1, y + 1, err, 3)
                      w3 == distributeError(w2, w, h, x, y + 1, err, 5)
                      w4 == distributeError(w3, w, h, x + 1, y + 1, err, 1)
                 IN  ditherFrom(w4, pal, paletteRGB, w, h, k + 1, Append(out, pal[nearest]))

\* the flat result of mapPixelsWithDithering for width = Math.sqrt(n).  When n
\* is a square the pass runs over a width x width copy.  Otherwise width is
\* not an integer: only row 0 has integer indices (its error reaches the
\* right neighbour alone, a one-row pass over floor(width) + 1 pixels), every
\* later read is undefined and pushes palette[0], for x, y <= floor(width).
ditherFlat(pixels, pal) ==
    LET n == Len(pixels)
        f == ISqrt(n)
        paletteRGB == paletteToRGB(pal)
    IN  IF IsSquare(n) THEN ditherFrom(pixels, pal, paletteRGB, f, f, 0, <<>>)
        ELSE ditherFrom(SubSeq(pixels, 1, f + 1), pal, paletteRGB, f + 1, 1, 0, <<>>)
             \o [k \in 1..(f * (f + 1)) |-> pal[findNearestColor(Undefined, paletteRGB)]]

mapPixelsWithDithering(pixels, pal) == toGrid(ditherFlat(pixels, pal), Len(pixels))

\* applyAutoTemplate: greens boosted, browns warmed, the rest kept
applyAutoTemplate(pixels) ==
    Tuple([k \in 1..Len(pixels) |->
        LET r == pixels[k][1]
            g == pixels[k][2]
            b == pixels[k][3]
        IN  IF g > r /\ g > b
            THEN <<Max2(0, r - 20), Min2(255, g + 30), Max2(0, b - 20), pixels[k][4]>>
            ELSE IF r > 100 /\ g > 80 /\ b < 80
                 THEN <<Min2(255, r + 20), g, Max2(0, b - 10), pixels[k][4]>>
                 ELSE pixels[k]])

\* countUniqueColors: distinct RGB among the pixels with a >= 128
countUniqueColors(pixels) ==
    Cardinality({<<pixels[k][1], pixels[k][2], pixels[k][3]>> :
                    k \in {j \in 1..Len(pixels) : pixels[j][4] >= AlphaThreshold}})

\* the colour list quantizeColorsOptimized builds: R, G, B of every pixel
pixelColors(pixels) ==
    Tuple([k \in 1..Len(pixels) |-> <<pixels[k][1], pixels[k][2], pixels[k][3]>>])

\* usePaletteLock && lockedPalette && lockedPalette.length > 0
lockApplies(usePaletteLock, lockedPalette) == usePaletteLock /\ lockedPalette # <<>>

\* quantizeColorsOptimized: the palette (locked or median cut) and the mapped grid
quantizeColorsOptimized(pixels, mc, enableDithering, usePaletteLock, lockedPalette) ==
    LET pal == IF lockApplies(usePaletteLock, lockedPalette) THEN lockedPalette
                   ELSE medianCutOptimized(pixelColors(pixels), mc)
    IN  [palette |-> pal,
         pixelData |-> IF enableDithering THEN mapPixelsWithDithering(pixels, pal)
                       ELSE mapPixelsToNearest(pixels, pal)]

\* processImage: the result posted with COMPLETE (processingTime left out)
processImage(data) ==
    LET resizedPixels == smartResize(data.imageData, data.targetWidth, data.targetHeight,
                                     data.resizeMode, data.detailBoost)
        processedPixels == IF data.autoTemplateMode THEN applyAutoTemplate(resizedPixels)
                           ELSE resizedPixels
        quantizedData == quantizeColorsOptimized(processedPixels, data.maxColors,
                             data.enableDithering, data.usePaletteLock, data.lockedPalette)
    IN  [pixelData |-> quantizedData.pixelData,
         width |-> data.targetWidth,
         height |-> data.targetHeight,
         palette |-> quantizedData.palette,
         stats |-> [originalColors |-> countUniqueColors(processedPixels),
                    finalColors |-> Len(quantizedData.palette)]]

\* ------------------------------------------------------------ fallback pipeline
\* resizeImageNearestNeighbor: a targetHeight x targetWidth grid of <<r,g,b>> or null
resizeImageNearestNeighbor(img, tw, th) ==
    Tuple([y \in 1..th |-> Tuple([x \in 1..tw |->
        LET srcX == ((x - 1) * img.width) \div tw
            srcY == ((y - 1) * img.height) \div th
            p == img.data[srcY * img.width + srcX + 1]
        IN  IF p[4] < AlphaThreshold THEN Null ELSE <<p[1], p[2], p[3]>>])])

RECURSIVE Flatten(_)
Flatten(rows) == IF rows = <<>> THEN <<>> ELSE Head(rows) \o Flatten(Tail(rows))

IsPixel(c) == c # Null

\* the nearest palette hex of the mapping loop of quantizeColorsMedianCut:
\* nearestColor = palette[0].hex, dist < minDistance keeps the first closest
nearestHex(pixel, pal) ==
    pal[nearestFrom(pixel, Tuple([i \in 1..Len(pal) |-> hexToRgb(pal[i].hex)]),
                    1, 0 - 1, 1)].hex

\* quantizeColorsMedianCut: [threw, pixelData, palette]
quantizeColorsMedianCut(pixelData, mc) ==
    LET pixels == SelectSeq(Flatten(pixelData), IsPixel)
        run == fallbackBoxes(<<pixels>>, 0, mc)
        hexes == fallbackPalette(run.boxes)
        pal == Tuple([i \in 1..Len(hexes) |-> [hex |-> hexes[i], label |-> ""]])
    IN  IF pixels = <<>>
        THEN [threw |-> FALSE, pixelData |-> pixelData,
              palette |-> <<[hex |-> rgbToHex(255, 255, 255), label |-> "White"]>>]
        ELSE IF run.threw THEN [threw |-> TRUE, pixelData |-> <<>>, palette |-> <<>>]
        ELSE [threw |-> FALSE,
              pixelData |-> Tuple([y \in 1..Len(pixelData) |->
                                Tuple([x \in 1..Len(pixelData[1]) |->
                                    IF pixelData[y][x] = Null THEN Null
                                    ELSE nearestHex(pixelData[y][x], pal)])]),
              palette |-> pal]

\* processImageFallback: what is stored in state.processedImageData, or threw
processImageFallback(img, tw, th, mc) ==
    LET quantizedData == quantizeColorsMedianCut(resizeImageNearestNeighbor(img, tw, th), mc)
    IN  [threw |-> quantizedData.threw,
         result |-> [pixelData |-> quantizedData.pixelData, width |-> tw, height |-> th,
                     palette |-> quantizedData.palette]]

\* ------------------------------------------------------------ idle values
Modes == {"fit", "fill", "centeredCrop"}

NoImage == [width |-> 0, height |-> 0, data |-> <<>>]
NoRequest == [targetWidth |-> 0, targetHeight |-> 0, mode |-> "none", detailBoost |-> 0]
NoCrop == [cropX |-> 0, cropY |-> 0, cropWidth |-> 0, cropHeight |-> 0]
NoSize == [width |-> 0, height |-> 0]

ResizeIdle ==
    /\ imageData = NoImage
    /\ request = NoRequest
    /\ crop = NoCrop
    /\ dst = NoSize
    /\ resized = <<>>
    /\ rpc = "idle"

QuantIdle ==
    /\ quantizer = "none"
    /\ colors = <<>>
    /\ maxColors = 0
    /\ buckets = <<>>
    /\ iteration = 0
    /\ qpc = "idle"
    /\ qPalette = <<>>

HexIdle ==
    /\ hexFn = "none"
    /\ hexIn = <<>>
    /\ hexOut = <<>>

DitherIdle ==
    /\ ditherIn = NoImage
    /\ ditherPalette = <<>>
    /\ dithered = <<>>
    /\ ditherOut = <<>>
    /\ ditherPos = 0
    /\ dpc = "idle"

DesignerIdle ==
    /\ gridWidth = 0
    /\ gridHeight = 0
    /\ gridData = <<>>
    /\ gridShared = FALSE
    /\ selectedColor = <<>>
    /\ saved = <<>>
    /\ steps = 0

ExtraIdle == HexIdle /\ DitherIdle /\ DesignerIdle

\* ------------------------------------------------------------ application
\* parseInt of a field that holds no number
NaN == 0 - 1000

\* the import form's accepted ranges (handleProcessImage)
MaxGridTarget == 80
MinColors == 2
MaxColorsAllowed == 12

RedPixel == <<255, 0, 0, 255>>
BluePixel == <<0, 0, 255, 255>>
WhitePixel == <<255, 255, 255, 255>>
\* a transparent pixel that still carries a colour
ClearGreenPixel == <<0, 128, 0, 0>>

\* bitmaps the user uploads
ImgRedBlue == [width |-> 2, height |-> 2, data |-> <<RedPixel, RedPixel, BluePixel, BluePixel>>]
ImgClear == [width |-> 2, height |-> 2, data |-> <<WhitePixel, ClearGreenPixel, BluePixel, BluePixel>>]
ImgWide == [width |-> 3, height |-> 1, data |-> <<RedPixel, BluePixel, BluePixel>>]
ImgUniform == [width |-> 1, height |-> 1, data |-> <<RedPixel>>]
Uploads == {ImgRedBlue, ImgClear, ImgWide, ImgUniform}

\* a palette the user has built: red, then blue
UserPalette == <<[hex |-> rgbToHex(255, 0, 0), label |-> "Color 1"],
                 [hex |-> rgbToHex(0, 0, 255), label |-> "Color 2"]>>

\* field values the pipeline accepts
ValidForms ==
    [targetWidth : MinTarget..MaxTarget, targetHeight : MinTarget..MaxTarget,
     maxColors : {2, 3}, detailBoost : {0, 2}, resizeMode : Modes,
     usePaletteLock : BOOLEAN, enableDithering : BOOLEAN, autoTemplateMode : BOOLEAN]

BaseForm ==
    [targetWidth |-> MinTarget, targetHeight |-> MinTarget, maxColors |-> MinColors,
     detailBoost |-> 0, resizeMode |-> "fill", usePaletteLock |-> FALSE,
     enableDithering |-> FALSE, autoTemplateMode |-> FALSE]

\* field values handleProcessImage rejects
InvalidForms ==
    {[BaseForm EXCEPT !.targetWidth = v] : v \in {NaN, MinTarget - 1, MaxGridTarget + 1}}
    \cup {[BaseForm EXCEPT !.targetHeight = v] : v \in {NaN, MinTarget - 1, MaxGridTarget + 1}}
    \cup {[BaseForm EXCEPT !.maxColors = v] : v \in {NaN, MinColors - 1, MaxColorsAllowed + 1}}

AppIdle ==
    /\ uploadedImage = NoImage
    /\ form = BaseForm
    /\ palette = <<>>
    /\ imageWorker = FALSE
    /\ workerReady = FALSE
    /\ inbox = <<>>
    /\ outbox = <<>>
    /\ processedImageData = <<>>
    /\ sendToGridEnabled = FALSE
    /\ notification = "none"
    /\ budget = 0

\* the state once the page is set up (initImageWorker has either created
\* the worker or caught the failure), an image may be loaded, a palette
\* built and the form filled in; one processing request is followed
Init ==
    /\ uploadedImage \in Uploads \cup {NoImage}
    /\ form \in ValidForms \cup InvalidForms
    /\ (uploadedImage = NoImage => form = BaseForm)
    /\ palette \in {<<>>, UserPalette}
    /\ (palette = <<>> => form.usePaletteLock)
    /\ imageWorker \in BOOLEAN
    /\ workerReady = imageWorker
    /\ inbox = <<>>
    /\ outbox = <<>>
    /\ processedImageData = <<>>
    /\ sendToGridEnabled = FALSE
    /\ notification = "none"
    /\ budget = 1
    /\ QuantIdle
    /\ ResizeIdle
    /\ ExtraIdle

\* the validation returns without the lower bound on maxColors
formErrorLax ==
    IF uploadedImage = NoImage THEN "Please upload an image first."
    ELSE IF NaN \in {form.targetWidth, form.targetHeight, form.maxColors}
    THEN "Please enter valid numbers for all fields."
    ELSE IF \/ form.targetWidth < MinTarget \/ form.targetHeight < MinTarget
            \/ form.targetWidth > MaxGridTarget \/ form.targetHeight > MaxGridTarget
    THEN "Grid size must be between 4 and 80."
    ELSE IF form.maxColors > MaxColorsAllowed
    THEN "Max colors must be between 2 and 12."
    ELSE "none"

\* the four validation returns of handleProcessImage
formError ==
    IF uploadedImage = NoImage THEN "Please upload an image first."
    ELSE IF NaN \in {form.targetWidth, form.targetHeight, form.maxColors}
    THEN "Please enter valid numbers for all fields."
    ELSE IF \/ form.targetWidth < MinTarget \/ form.targetHeight < MinTarget
            \/ form.targetWidth > MaxGridTarget \/ form.targetHeight > MaxGridTarget
    THEN "Grid size must be between 4 and 80."
    ELSE IF form.maxColors < MinColors \/ form.maxColors > MaxColorsAllowed
    THEN "Max colors must be between 2 and 12."
    ELSE "none"

\* lockedPalette = state.palette.map(c => c.hex) when the lock is on and the
\* palette is not empty, else null (here <<>>)
lockedPaletteOf(f, pal) ==
    IF f.usePaletteLock /\ Len(pal) > 0 THEN [i \in 1..Len(pal) |-> pal[i].hex] ELSE <<>>

\* the data of the PROCESS_IMAGE message processImageWithWorker posts
requestData(img, f, pal) ==
    [imageData |-> img, targetWidth |-> f.targetWidth, targetHeight |-> f.targetHeight,
     maxColors |-> f.maxColors, detailBoost |-> f.detailBoost, resizeMode |-> f.resizeMode,
     usePaletteLock |-> f.usePaletteLock, lockedPalette |-> lockedPaletteOf(f, pal),
     enableDithering |-> f.enableDithering, autoTemplateMode |-> f.autoTemplateMode]

\* handleProcessImage: a validation failure notifies and returns
HandleProcessImageRejected ==
    /\ budget > 0
    /\ formError # "none"
    /\ notification' = formError
    /\ budget' = budget - 1
    /\ UNCHANGED <<uploadedImage, form, palette, imageWorker, workerReady, inbox, outbox,
                   processedImageData, sendToGridEnabled>>
    /\ UNCHANGED <<qvars, rvars, xvars>>

\* handleProcessImage -> processImageWithWorker: the request is posted
HandleProcessImageWorker ==
    /\ budget > 0
    /\ formError = "none"
    /\ workerReady /\ imageWorker
    /\ inbox' = Append(inbox, [type |-> "PROCESS_IMAGE",
                               data |-> requestData(uploadedImage, form, palette)])
    /\ budget' = budget - 1
    /\ UNCHANGED <<uploadedImage, form, palette, imageWorker, workerReady, outbox,
                   processedImageData, sendToGridEnabled, notification>>
    /\ UNCHANGED <<qvars, rvars, xvars>>

\* processImageFallback on the form's values: the result is stored, or the
\* exception is caught and reported
RunProcessImageFallback ==
    /\ budget > 0
    /\ formError = "none"
    /\ LET run == processImageFallback(uploadedImage, form.targetWidth, form.targetHeight,
                                       form.maxColors)
       IN  IF run.threw
           THEN /\ notification' = "Error processing image. Please try again."
                /\ UNCHANGED <<processedImageData, sendToGridEnabled>>
           ELSE /\ processedImageData' = <<run.result>>
                /\ sendToGridEnabled' = TRUE
                /\ notification' = "Image processed!"
    /\ budget' = budget - 1
    /\ UNCHANGED <<uploadedImage, form, palette, imageWorker, workerReady, inbox, outbox>>
    /\ UNCHANGED <<qvars, rvars, xvars>>

\* handleProcessImage -> processImageFallback: the worker is not available
HandleProcessImageFallback ==
    /\ ~(workerReady /\ imageWorker)
    /\ RunProcessImageFallback

\* the PROGRESS messages with 90 posted ahead of 50
progressOfUnordered(data) ==
    <<[type |-> "PROGRESS", progress |-> 0]>>
    \o (IF data.autoTemplateMode THEN <<[type |-> "PROGRESS", progress |-> 25]>> ELSE <<>>)
    \o <<[type |-> "PROGRESS", progress |-> 90], [type |-> "PROGRESS", progress |-> 50]>>

\* the PROGRESS messages processImage posts for a request, in posting order
progressOf(data) ==
    <<[type |-> "PROGRESS", progress |-> 0]>>
    \o (IF data.autoTemplateMode THEN <<[type |-> "PROGRESS", progress |-> 25]>> ELSE <<>>)
    \o <<[type |-> "PROGRESS", progress |-> 50], [type |-> "PROGRESS", progress |-> 90]>>

\* the worker's message listener on a PROCESS_IMAGE message: processImage
\* posts its progress and then COMPLETE
WorkerProcessImage ==
    /\ inbox # <<>>
    /\ Head(inbox).type = "PROCESS_IMAGE"
    /\ inbox' = Tail(inbox)
    /\ outbox' = outbox \o progressOf(Head(inbox).data)
                         \o <<[type |-> "COMPLETE", result |-> processImage(Head(inbox).data)]>>
    /\ UNCHANGED <<uploadedImage, form, palette, imageWorker, workerReady,
                   processedImageData, sendToGridEnabled, notification, budget>>
    /\ UNCHANGED <<qvars, rvars, xvars>>

\* imageWorker.onmessage, case 'PROGRESS': updateWorkerProgress touches the overlay only
OnProgress ==
    /\ outbox # <<>>
    /\ Head(outbox).type = "PROGRESS"
    /\ outbox' = Tail(outbox)
    /\ UNCHANGED <<uploadedImage, form, palette, imageWorker, workerReady, inbox,
                   processedImageData, sendToGridEnabled, notification, budget>>
    /\ UNCHANGED <<qvars, rvars, xvars>>

\* renderReducedPreview reads pixelData[y][x] for y < height: a missing row
\* makes it throw
previewThrows(result) == Len(result.pixelData) < result.height

\* imageWorker.onmessage, case 'COMPLETE': handleWorkerComplete stores the
\* result, renders the preview, enables the button and notifies
OnComplete ==
    /\ outbox # <<>>
    /\ Head(outbox).type = "COMPLETE"
    /\ outbox' = Tail(outbox)
    /\ processedImageData' = <<Head(outbox).result>>
    /\ IF previewThrows(Head(outbox).result)
       THEN UNCHANGED <<sendToGridEnabled, notification>>
       ELSE /\ sendToGridEnabled' = TRUE
            /\ notification' = "Processed!"
    /\ UNCHANGED <<uploadedImage, form, palette, imageWorker, workerReady, inbox, budget>>
    /\ UNCHANGED <<qvars, rvars, xvars>>

Next ==
    \/ HandleProcessImageRejected
    \/ HandleProcessImageWorker
    \/ HandleProcessImageFallback
    \/ WorkerProcessImage
    \/ OnProgress
    \/ OnComplete

Spec == Init /\ [][Next]_vars

\* ------------------------------------------------------------ sessions with failures
\* the listener's catch: processImage throws (an allocation fails) after n of
\* its PROGRESS messages, and ERROR is posted in place of COMPLETE
WorkerProcessImageThrows ==
    /\ inbox # <<>>
    /\ Head(inbox).type = "PROCESS_IMAGE"
    /\ inbox' = Tail(inbox)
    /\ \E n \in 1..Len(progressOf(Head(inbox).data)) :
         outbox' = outbox \o SubSeq(progressOf(Head(inbox).data), 1, n)
                          \o <<[type |-> "ERROR"]>>
    /\ UNCHANGED <<uploadedImage, form, palette, imageWorker, workerReady,
                   processedImageData, sendToGridEnabled, notification, budget>>
    /\ UNCHANGED <<qvars, rvars, xvars>>

\* the listener's default case: any other message type is answered with ERROR
WorkerUnknownMessage ==
    /\ inbox # <<>>
    /\ Head(inbox).type # "PROCESS_IMAGE"
    /\ inbox' = Tail(inbox)
    /\ outbox' = Append(outbox, [type |-> "ERROR"])
    /\ UNCHANGED <<uploadedImage, form, palette, imageWorker, workerReady,
                   processedImageData, sendToGridEnabled, notification, budget>>
    /\ UNCHANGED <<qvars, rvars, xvars>>

\* what handleWorkerError shows
WorkerFailedNotice == "Processing failed. Try fallback mode or smaller image."

\* imageWorker.onmessage, case 'ERROR': handleWorkerError notifies, nothing else
OnError ==
    /\ outbox # <<>>
    /\ Head(outbox).type = "ERROR"
    /\ outbox' = Tail(outbox)
    /\ notification' = WorkerFailedNotice
    /\ UNCHANGED <<uploadedImage, form, palette, imageWorker, workerReady, inbox,
                   processedImageData, sendToGridEnabled, budget>>
    /\ UNCHANGED <<qvars, rvars, xvars>>

\* imageWorker.onerror: handleWorkerError, then state.workerReady = false
OnWorkerErrorEvent ==
    /\ imageWorker /\ workerReady
    /\ workerReady' = FALSE
    /\ notification' = WorkerFailedNotice
    /\ UNCHANGED <<uploadedImage, form, palette, imageWorker, inbox, outbox,
                   processedImageData, sendToGridEnabled, budget>>
    /\ UNCHANGED <<qvars, rvars, xvars>>

\* processImageWithWorker's catch: reading the image or posting throws, and
\* the same request runs through processImageFallback
HandleProcessImagePostThrows ==
    /\ workerReady /\ imageWorker
    /\ RunProcessImageFallback

\* forms of a session: the base form, mode 'fit', four colours
SessionForms ==
    {BaseForm,
     [BaseForm EXCEPT !.resizeMode = "fit"],
     [BaseForm EXCEPT !.maxColors = 4]}

\* the user changes the import form between two requests
EditForm ==
    /\ budget > 0
    /\ uploadedImage # NoImage
    /\ form' \in SessionForms \ {form}
    /\ UNCHANGED <<uploadedImage, palette, imageWorker, workerReady, inbox, outbox,
                   processedImageData, sendToGridEnabled, notification, budget>>
    /\ UNCHANGED <<qvars, rvars, xvars>>

InitSession ==
    /\ uploadedImage \in {ImgWide, ImgUniform, NoImage}
    /\ form \in SessionForms
    /\ (uploadedImage = NoImage => form = BaseForm)
    /\ palette = UserPalette
    /\ imageWorker \in BOOLEAN
    /\ workerReady = imageWorker
    /\ inbox = <<>>
    /\ outbox = <<>>
    /\ processedImageData = <<>>
    /\ sendToGridEnabled = FALSE
    /\ notification = "none"
    /\ budget = MaxRequests
    /\ QuantIdle
    /\ ResizeIdle
    /\ ExtraIdle

\* a request runs on the main thread from the else branch of
\* handleProcessImage (HandleProcessImageFallback) or from the catch of
\* processImageWithWorker (HandleProcessImagePostThrows)
NextSession ==
    \/ HandleProcessImageRejected
    \/ HandleProcessImageWorker
    \/ RunProcessImageFallback
    \/ EditForm
    \/ WorkerProcessImage
    \/ WorkerProcessImageThrows
    \/ OnProgress
    \/ OnComplete
    \/ OnError
    \/ OnWorkerErrorEvent

SpecSession == InitSession /\ [][NextSession]_vars

\* ------------------------------------------------------------ worker driven directly
\* requests posted straight to the worker: its listener checks no range
WorkerRequests ==
    {requestData(img, f, <<>>) :
        img \in Uploads,
        f \in [targetWidth : 2..MaxWorkerTarget, targetHeight : 2..MaxWorkerTarget,
               maxColors : {2}, detailBoost : {0, 2}, resizeMode : Modes,
               usePaletteLock : {FALSE}, enableDithering : BOOLEAN,
               autoTemplateMode : BOOLEAN]}

\* message types posted to the worker: the one it knows and one it does not
MessageTypes == {"PROCESS_IMAGE", "CANCEL"}

InitWorker ==
    /\ uploadedImage = NoImage
    /\ form = BaseForm
    /\ palette = <<>>
    /\ imageWorker = TRUE
    /\ workerReady = TRUE
    /\ inbox \in {<<[type |-> t, data |-> d]>> : t \in MessageTypes, d \in WorkerRequests}
    /\ outbox = <<>>
    /\ processedImageData = <<>>
    /\ sendToGridEnabled = FALSE
    /\ notification = "none"
    /\ budget = 0
    /\ QuantIdle
    /\ ResizeIdle
    /\ ExtraIdle

NextWorker ==
    \/ WorkerProcessImage
    \/ WorkerProcessImageThrows
    \/ WorkerUnknownMessage

SpecWorker == InitWorker /\ [][NextWorker]_vars

\* ------------------------------------------------------------ claims on the worker pipeline
RedHex == rgbToHex(255, 0, 0)
BlueHex == rgbToHex(0, 0, 255)

\* the 2x2 scenario: [red, red, blue, blue], 2x2, two colours, 'fill', no dithering
IsScenario(d) ==
    /\ d.imageData = ImgRedBlue
    /\ d.targetWidth = 2 /\ d.targetHeight = 2
    /\ d.maxColors = 2 /\ d.resizeMode = "fill" /\ ~d.enableDithering

\* the result of the COMPLETE message that ends the outbox
Completed(box) == box[Len(box)].result

\* C7 as stated: the worker answers the 2x2 scenario with the palette
\* #ff0000 then #0000ff and the grid [[red, red], [blue, blue]].
C7_AsStated ==
    [][(WorkerProcessImage /\ IsScenario(Head(inbox).data)) =>
        /\ Completed(outbox').palette = <<RedHex, BlueHex>>
        /\ Completed(outbox').pixelData = <<<<RedHex, RedHex>>, <<BlueHex, BlueHex>>>>]_vars

\* C7: the worker answers the 2x2 scenario with the palette #0000ff then
\* #ff0000 (the buckets come out of an ascending sort on the red channel)
\* and the grid [[red, red], [blue, blue]].
C7_ScenarioResult ==
    [][(WorkerProcessImage /\ IsScenario(Head(inbox).data)) =>
        /\ Completed(outbox').palette = <<BlueHex, RedHex>>
        /\ Completed(outbox').pixelData = <<<<RedHex, RedHex>>, <<BlueHex, BlueHex>>>>]_vars

\* the worker has answered a 2x2 request with blue, red and the red-over-blue grid
C7_Witness ==
    /\ inbox = <<>> /\ outbox # <<>>
    /\ outbox[Len(outbox)].type = "COMPLETE"
    /\ Completed(outbox).width = 2 /\ Completed(outbox).height = 2
    /\ Completed(outbox).palette = <<BlueHex, RedHex>>
    /\ Completed(outbox).pixelData = <<<<RedHex, RedHex>>, <<BlueHex, BlueHex>>>>

\* the messages a step appends to the outbox
posted == SubSeq(outbox', Len(outbox) + 1, Len(outbox'))

IsTerminal(m) == m.type \in {"COMPLETE", "ERROR"}

\* PROGRESS messages only, percentages non-decreasing, then one terminal message
OrderedAnswer(ms) ==
    /\ ms # <<>>
    /\ IsTerminal(ms[Len(ms)])
    /\ \A k \in 1..(Len(ms) - 1) : ms[k].type = "PROGRESS"
    /\ \A k \in 1..(Len(ms) - 2) : ms[k].progress <= ms[k + 1].progress

\* C15: the worker answers each PROCESS_IMAGE message with PROGRESS messages
\* of non-decreasing percentage followed by exactly one terminal message
\* (COMPLETE or ERROR), answers a message of any other type with exactly
\* one ERROR, and posts nothing at any other time.
C15_ProtocolOrdering ==
    [][IF inbox # <<>> /\ inbox' = Tail(inbox)
       THEN IF Head(inbox).type = "PROCESS_IMAGE"
            THEN OrderedAnswer(posted)
            ELSE posted = <<[type |-> "ERROR"]>>
       ELSE Len(outbox') <= Len(outbox)]_vars

\* a request with the template step has been answered with all four
\* percentages and COMPLETE
C15_Witness ==
    /\ inbox = <<>>
    /\ Len(outbox) = 5
    /\ [k \in 1..4 |-> outbox[k].progress] = <<0, 25, 50, 90>>
    /\ outbox[5].type = "COMPLETE"

\* ------------------------------------------------------------ claims on the application
\* the result a strategy has stored
Stored == processedImageData[1]

\* C1: a result the worker delivered has exactly result.height rows of
\* exactly result.width cells each.
C1_GridMatchesResult ==
    (imageWorker /\ processedImageData # <<>>) =>
        /\ Len(Stored.pixelData) = Stored.height
        /\ \A y \in 1..Len(Stored.pixelData) : Len(Stored.pixelData[y]) = Stored.width

\* the hex strings of a stored palette: the worker stores strings, the
\* fallback {hex, label} entries
hexesOf(pal, fromWorker) ==
    IF fromWorker THEN pal ELSE [i \in 1..Len(pal) |-> pal[i].hex]

cellsOf(grid) == {grid[y][x] : y \in 1..Len(grid), x \in 1..Len(grid[1])}

RECURSIVE SeqToSet(_)
SeqToSet(q) == IF q = <<>> THEN {} ELSE {Head(q)} \cup SeqToSet(Tail(q))

\* C8: with the lock on and a non-empty palette to lock, the stored palette
\* is the locked palette, entry for entry, and every filled cell is one of
\* its entries.
C8_LockedPaletteVerbatim ==
    (processedImageData # <<>> /\ lockApplies(form.usePaletteLock, lockedPaletteOf(form, palette))) =>
        /\ hexesOf(Stored.palette, imageWorker) = lockedPaletteOf(form, palette)
        /\ cellsOf(Stored.pixelData) \subseteq SeqToSet(lockedPaletteOf(form, palette)) \cup {Null}

\* the pixel grid and palette hexes of a stored result
observable(r, fromWorker) ==
    [pixelData |-> r.pixelData, palette |-> hexesOf(r.palette, fromWorker)]

\* what the strategy that did not run would have stored for the same image
\* and form
otherStrategy ==
    IF imageWorker
    THEN LET run == processImageFallback(uploadedImage, form.targetWidth,
                                         form.targetHeight, form.maxColors)
         IN  IF run.threw THEN <<>> ELSE <<observable(run.result, FALSE)>>
    ELSE <<observable(processImage(requestData(uploadedImage, form, palette)), TRUE)>>

\* C10: the stored pixel grid and palette are those the other strategy
\* stores for the same uploaded image and configuration.
C10_StrategiesAgree ==
    processedImageData # <<>> => otherStrategy = <<observable(Stored, imageWorker)>>

\* the pixels processImage hands to quantizeColorsOptimized for a form
processedPixelsOf(img, f) ==
    LET resizedPixels == smartResize(img, f.targetWidth, f.targetHeight,
                                     f.resizeMode, f.detailBoost)
    IN  IF f.autoTemplateMode THEN applyAutoTemplate(resizedPixels) ELSE resizedPixels

\* C11: in a result the worker delivered, the k-th cell (row by row) is
\* null when the k-th resampled pixel has alpha below 128 and a colour
\* when it has alpha of 128 or more, with and without dithering.
C11_TransparencyYieldsNull ==
    (imageWorker /\ processedImageData # <<>>) =>
        LET px == processedPixelsOf(uploadedImage, form)
            flat == Flatten(Stored.pixelData)
        IN  \A k \in 1..Len(px) :
                /\ k <= Len(flat)
                /\ (flat[k] = Null) <=> (px[k][4] < AlphaThreshold)

\* a >= 128: the pixel is not transparent
IsOpaque(p) == p[4] >= AlphaThreshold

\* C12: a palette the worker computed (no lock) is the palette median cut
\* gives for the opaque resampled pixels alone: pixels with alpha below 128
\* add no colour to the quantizer's input.
C12_PaletteFromOpaquePixels ==
    (/\ imageWorker /\ processedImageData # <<>>
     /\ ~lockApplies(form.usePaletteLock, lockedPaletteOf(form, palette))) =>
        LET opaque == SelectSeq(processedPixelsOf(uploadedImage, form), IsOpaque)
        IN  opaque # <<>> =>
                Stored.palette = medianCutOptimized(pixelColors(opaque), form.maxColors)

\* entry i of rgbs is at minimal squared distance from c, and is the first such
IsNearest(i, c, rgbs) ==
    \A j \in 1..Len(rgbs) :
        /\ dist2(c, rgbs[j]) >= dist2(c, rgbs[i])
        /\ j < i => dist2(c, rgbs[j]) > dist2(c, rgbs[i])

\* the colours the stored palette stands for, as each strategy parses them
storedRGB ==
    IF imageWorker THEN paletteToRGB(Stored.palette)
    ELSE Tuple([i \in 1..Len(Stored.palette) |-> hexToRgb(Stored.palette[i].hex)])

\* the pixels the mapping step of the strategy that ran was given (null or
\* transparent ones as Null)
mappedPixels ==
    IF imageWorker
    THEN LET px == processedPixelsOf(uploadedImage, form)
         IN  Tuple([k \in 1..Len(px) |-> IF IsOpaque(px[k]) THEN px[k] ELSE Null])
    ELSE Flatten(resizeImageNearestNeighbor(uploadedImage, form.targetWidth,
                                            form.targetHeight))

\* C14: in a result mapped without dithering every filled cell is the
\* palette entry at minimal squared RGB distance from its pixel, the first
\* such entry on ties, so a pixel equal to a palette colour gets that colour.
C14_NearestIsMinimal ==
    (processedImageData # <<>> /\ ~(imageWorker /\ form.enableDithering)) =>
        LET flat == Flatten(Stored.pixelData)
            hexes == hexesOf(Stored.palette, imageWorker)
            px == mappedPixels
            rgbs == storedRGB
        IN  \A k \in 1..Len(px) :
                px[k] # Null =>
                    \E i \in 1..Len(hexes) :
                        /\ IsNearest(i, px[k], rgbs)
                        /\ flat[k] = hexes[i]
                        /\ imageWorker => i = findNearestColor(px[k], rgbs)

\* a stored result has a pixel equally near to two different palette
\* colours, and a pixel that is itself a palette colour
C14_Witness ==
    /\ processedImageData # <<>> /\ ~(imageWorker /\ form.enableDithering)
    /\ LET px == mappedPixels
           rgbs == storedRGB
       IN  /\ \E k \in 1..Len(px) :
                /\ px[k] # Null
                /\ \E i, j \in 1..Len(rgbs) :
                     /\ i < j /\ rgbs[i] # rgbs[j]
                     /\ IsNearest(i, px[k], rgbs)
                     /\ dist2(px[k], rgbs[j]) = dist2(px[k], rgbs[i])
           /\ \E k \in 1..Len(px) :
                /\ px[k] # Null
                /\ \E i \in 1..Len(rgbs) : dist2(px[k], rgbs[i]) = 0

\* a configuration the pipeline must not be started with
ConfigError ==
    \/ uploadedImage = NoImage
    \/ \E v \in {form.targetWidth, form.targetHeight, form.maxColors} : v = NaN
    \/ form.targetWidth \notin 4..80
    \/ form.targetHeight \notin 4..80
    \/ form.maxColors \notin 2..12

ValidationNotices ==
    {"Please upload an image first.", "Please enter valid numbers for all fields.",
     "Grid size must be between 4 and 80.", "Max colors must be between 2 and 12."}

\* C17: when handleProcessImage is invoked on a configuration error (no
\* image, a non-numeric field, a target outside 4..80, maxColors outside
\* 2..12) it posts nothing to the worker, does not run the fallback pipeline
\* and leaves state.processedImageData unchanged; it notifies the
\* validation failure.
C17_ConfigErrorRejected ==
    [][(ConfigError /\ budget' < budget) =>
        /\ inbox' = inbox
        /\ processedImageData' = processedImageData
        /\ sendToGridEnabled' = sendToGridEnabled
        /\ notification' \in ValidationNotices]_vars

\* a request with maxColors below 2 has been rejected
C17_Witness ==
    /\ uploadedImage # NoImage
    /\ form.maxColors = MinColors - 1
    /\ budget = 0
    /\ notification = "Max colors must be between 2 and 12."
    /\ inbox = <<>> /\ outbox = <<>> /\ processedImageData = <<>>

\* the cells of a grid, row by row
gridCells(grid) == UNION {{grid[y][x] : x \in 1..Len(grid[y])} : y \in 1..Len(grid)}

\* C28: every non-null cell of a stored pixel grid is an entry of the
\* palette stored with it, whichever strategy and mapping produced it and
\* whether the palette was computed or locked.
C28_CellsFromPalette ==
    processedImageData # <<>> =>
        LET hexes == hexesOf(Stored.palette, imageWorker)
        IN  \A c \in gridCells(Stored.pixelData) :
                c # Null => \E i \in 1..Len(hexes) : hexes[i] = c

\* the worker has stored a dithered grid with an empty cell and cells of two
\* different palette entries
C28_Witness ==
    /\ processedImageData # <<>> /\ imageWorker /\ form.enableDithering
    /\ Null \in gridCells(Stored.pixelData)
    /\ Cardinality(gridCells(Stored.pixelData) \ {Null}) >= 2

\* what the application shows when a request has failed
ErrorNotices == {WorkerFailedNotice, "Error processing image. Please try again."}

\* a step of the application in which the processing of a request throws: the
\* worker has answered ERROR, the fallback pipeline throws, or the preview of
\* a worker result cannot be drawn
ProcessingThrows ==
    \/ OnError
    \/ /\ RunProcessImageFallback
       /\ processImageFallback(uploadedImage, form.targetWidth, form.targetHeight,
                               form.maxColors).threw
    \/ OnComplete /\ previewThrows(Head(outbox).result)

\* C16: an exception thrown while a request is processed surfaces as an
\* error notification and leaves state.processedImageData unchanged.
C16_FailureLeavesNoResult ==
    [][ProcessingThrows =>
        /\ processedImageData' = processedImageData
        /\ notification' \in ErrorNotices]_vars

\* the answer at the head of the outbox belongs to a request that is not the
\* newest: a later request waits in the worker, or its answer is queued
\* behind this one
Superseded ==
    \/ inbox # <<>>
    \/ \E k \in 2..Len(outbox) : IsTerminal(outbox[k])

\* C18: once a newer request has started, the COMPLETE of an older request
\* changes neither state.processedImageData nor the Send to Grid button.
C18_OlderResultIgnored ==
    [][(OnComplete /\ Superseded) =>
        /\ processedImageData' = processedImageData
        /\ sendToGridEnabled' = sendToGridEnabled]_vars

\* C19: after the worker has failed (an ERROR answer or an error event has
\* been reported and nothing has happened since), the next accepted request
\* is not posted to the worker.
C19_NextRequestFallsBack ==
    [][(notification = WorkerFailedNotice /\ formError = "none" /\ budget' < budget) =>
        inbox' = inbox]_vars

\* ------------------------------------------------------------ resampler calls
Dark == <<0, 0, 0, 255>>
Bright == <<255, 255, 255, 255>>

\* a w x h bitmap, dark but for the pixels at the 0-based indices in `lit`
Bitmap(w, h, lit) ==
    [width |-> w, height |-> h,
     data |-> [k \in 1..(w * h) |-> IF (k - 1) \in lit THEN Bright ELSE Dark]]

\* source bitmaps of a resampler call: uniform, or with one bright pixel
ResizeSources ==
    {Bitmap(w, h, lit) : w \in 1..MaxSrc, h \in 1..MaxSrc,
                         lit \in {{}} \cup {{p} : p \in 0..(MaxSrc * MaxSrc - 1)}}

InitResize ==
    /\ imageData \in ResizeSources
    /\ request \in [targetWidth : MinTarget..MaxTarget,
                    targetHeight : (MinTarget..MaxTarget) \cup {TallTarget},
                    mode : Modes, detailBoost : {0, 2}]
    /\ crop = NoCrop
    /\ dst = NoSize
    /\ resized = <<>>
    /\ rpc = "call"
    /\ QuantIdle
    /\ AppIdle
    /\ ExtraIdle

\* smartResize, case 'fit': the destination shrinks, the crop is the full source
SmartResizeFit ==
    /\ rpc = "call"
    /\ request.mode = "fit"
    /\ crop' = fullCrop(imageData)
    /\ dst' = fitSize(imageData, request.targetWidth, request.targetHeight)
    /\ resized' = smartResize(imageData, request.targetWidth, request.targetHeight,
                              "fit", request.detailBoost)
    /\ rpc' = "done"
    /\ UNCHANGED <<imageData, request>>
    /\ UNCHANGED <<qvars, avars, xvars>>

\* smartResize, case 'fill': the crop is trimmed to the target's aspect ratio
SmartResizeFill ==
    /\ rpc = "call"
    /\ request.mode = "fill"
    /\ crop' = fillCrop(imageData, request.targetWidth, request.targetHeight)
    /\ dst' = [width |-> request.targetWidth, height |-> request.targetHeight]
    /\ resized' = smartResize(imageData, request.targetWidth, request.targetHeight,
                              "fill", request.detailBoost)
    /\ rpc' = "done"
    /\ UNCHANGED <<imageData, request>>
    /\ UNCHANGED <<qvars, avars, xvars>>

\* smartResize, case 'centeredCrop': the crop is the detected subject box
SmartResizeCenteredCrop ==
    /\ rpc = "call"
    /\ request.mode = "centeredCrop"
    /\ crop' = cropFor(imageData, request.targetWidth, request.targetHeight, "centeredCrop")
    /\ dst' = [width |-> request.targetWidth, height |-> request.targetHeight]
    /\ resized' = smartResize(imageData, request.targetWidth, request.targetHeight,
                              "centeredCrop", request.detailBoost)
    /\ rpc' = "done"
    /\ UNCHANGED <<imageData, request>>
    /\ UNCHANGED <<qvars, avars, xvars>>

NextResize ==
    \/ SmartResizeFit
    \/ SmartResizeFill
    \/ SmartResizeCenteredCrop

SpecResize == InitResize /\ [][NextResize]_vars

\* ------------------------------------------------------------ claims on the resampler
\* C2: in mode 'fill' the returned bitmap holds exactly targetWidth x
\* targetHeight pixels for every source size; in mode 'fit' it keeps one
\* requested dimension and the other is the source aspect ratio's value for
\* it, within one pixel.
C2_ResampleDimensions ==
    rpc = "done" =>
        /\ Len(resized) = dst.width * dst.height
        /\ request.mode = "fill" =>
             /\ dst.width = request.targetWidth /\ dst.height = request.targetHeight
             /\ Len(resized) = request.targetWidth * request.targetHeight
        /\ request.mode = "fit" =>
             \/ /\ dst.width = request.targetWidth
                /\ Abs(dst.height * imageData.width - request.targetWidth * imageData.height)
                     < imageData.width
             \/ /\ dst.height = request.targetHeight
                /\ Abs(dst.width * imageData.height - request.targetHeight * imageData.width)
                     < imageData.height

\* a 'fit' call on a non-square source has kept the requested height and
\* shrunk the width
C2_Witness ==
    /\ rpc = "done" /\ request.mode = "fit"
    /\ imageData.width # imageData.height
    /\ dst.width < request.targetWidth
    /\ dst.height = request.targetHeight
    /\ Len(resized) > 0

\* whether a pixel of the source is above the edge threshold
HasEdge(img) ==
    \E x \in 0..(img.width - 1), y \in 0..(img.height - 1) : isEdge(img, x, y)

\* C9: for a source with no pixel above the edge threshold the subject box
\* is the full frame: x = 0, y = 0, width and height those of the source.
C9_FullFrameWhenNoEdges ==
    (rpc = "done" /\ request.mode = "centeredCrop" /\ ~HasEdge(imageData)) =>
        crop = fullCrop(imageData)

\* C20: the crop rectangle handed to resizeWithQuality has a width and a
\* height of at least 1, in every mode.
C20_CropAtLeastOnePixel ==
    rpc = "done" => crop.cropWidth >= 1 /\ crop.cropHeight >= 1

\* the source coordinates bilinearSample reads for the source position
\* (xn / dw, yn / dh): x1, x2 and y1, y2
bilinearReads(img, xn, dw, yn, dh) ==
    LET x1 == xn \div dw
        y1 == yn \div dh
    IN  [xs |-> {x1, Min2(x1 + 1, img.width - 1)},
         ys |-> {y1, Min2(y1 + 1, img.height - 1)}]

\* the source coordinates sampleWithSharpening reads: px, py over the kernel
sharpeningReads(img, xn, dw, yn, dh) ==
    [xs |-> {Max2(0, Min2(img.width - 1, RoundDiv(xn, dw) + kx)) : kx \in {0 - 1, 0, 1}},
     ys |-> {Max2(0, Min2(img.height - 1, RoundDiv(yn, dh) + ky)) : ky \in {0 - 1, 0, 1}}]

\* the source coordinates resizeWithQuality reads for destination pixel (x, y)
readsFor(img, dw, dh, c, detailBoost, x, y) ==
    LET xn == c.cropX * dw + x * c.cropWidth
        yn == c.cropY * dh + y * c.cropHeight
    IN  IF detailBoost >= 1 /\ detailBoost = 2
        THEN sharpeningReads(img, xn, dw, yn, dh)
        ELSE bilinearReads(img, xn, dw, yn, dh)

\* C29: every source coordinate the resampler reads lies inside the source
\* bitmap: 0 <= x < srcWidth and 0 <= y < srcHeight, for every destination
\* pixel, mode and detailBoost.
C29_ReadsInsideSource ==
    rpc = "done" =>
        \A x \in 0..(dst.width - 1), y \in 0..(dst.height - 1) :
            LET reads == readsFor(imageData, dst.width, dst.height, crop,
                                  request.detailBoost, x, y)
            IN  /\ \A sx \in reads.xs : 0 <= sx /\ sx < imageData.width
                /\ \A sy \in reads.ys : 0 <= sy /\ sy < imageData.height

\* ------------------------------------------------------------ quantizer runs
\* colours a quantizer run draws its input from
QuantColors == {<<255, 0, 0>>, <<0, 0, 255>>, <<0, 128, 0>>, <<255, 255, 255>>}

ColorLists == UNION {[1..n -> QuantColors] : n \in 1..MaxPixels}

\* a list of RampLen different greys, for runs of many splits
GreyRamp == [i \in 1..RampLen |-> <<10 * i, 10 * i, 10 * i>>]

\* the largest maxColors medianCutOptimized keeps
MaxColorsKept == 256

InitQuant ==
    /\ quantizer \in {"worker", "fallback"}
    /\ colors \in ColorLists \cup {GreyRamp}
    /\ maxColors \in 1..MaxMaxColors \cup {MaxColorsKept}
    /\ buckets = <<colors>>
    /\ iteration = 0
    /\ qpc = "split"
    /\ qPalette = <<>>
    /\ ResizeIdle
    /\ AppIdle
    /\ ExtraIdle

\* a pass of the loop that splits whichever bucket of two or more colours
\* the run happens to visit
WorkerSplitAnyBucket ==
    /\ quantizer = "worker" /\ qpc = "split"
    /\ workerContinues(buckets, maxColors)
    /\ \E i \in 1..Len(buckets) :
         /\ Len(buckets[i]) >= 2
         /\ LET split == splitBucket(buckets[i], pickChannel(getColorRanges(buckets[i])))
            IN  buckets' = Splice(buckets, i, split[1], split[2])
    /\ UNCHANGED <<quantizer, colors, maxColors, iteration, qpc, qPalette>>
    /\ UNCHANGED <<rvars, avars, xvars>>

\* medianCutOptimized: one pass of the while loop
WorkerSplit ==
    /\ quantizer = "worker" /\ qpc = "split"
    /\ workerContinues(buckets, maxColors)
    /\ buckets' = workerIteration(buckets)
    /\ UNCHANGED <<quantizer, colors, maxColors, iteration, qpc, qPalette>>
    /\ UNCHANGED <<rvars, avars, xvars>>

\* medianCutOptimized: the loop is left and every bucket is averaged
WorkerAverage ==
    /\ quantizer = "worker" /\ qpc = "split"
    /\ ~workerContinues(buckets, maxColors)
    /\ qPalette' = workerPalette(buckets)
    /\ qpc' = "done"
    /\ UNCHANGED <<quantizer, colors, maxColors, buckets, iteration>>
    /\ UNCHANGED <<rvars, avars, xvars>>

\* quantizeColorsMedianCut: one pass of the while loop
FallbackSplit ==
    /\ quantizer = "fallback" /\ qpc = "split"
    /\ ~fallbackThrows(buckets)
    /\ fallbackContinues(buckets, iteration, maxColors)
    /\ buckets' = fallbackIteration(buckets)
    /\ iteration' = iteration + 1
    /\ UNCHANGED <<quantizer, colors, maxColors, qpc, qPalette>>
    /\ UNCHANGED <<rvars, avars, xvars>>

\* quantizeColorsMedianCut: the loop is left and every box is averaged
FallbackAverage ==
    /\ quantizer = "fallback" /\ qpc = "split"
    /\ ~fallbackThrows(buckets)
    /\ ~fallbackContinues(buckets, iteration, maxColors)
    /\ qPalette' = fallbackPalette(buckets)
    /\ qpc' = "done"
    /\ UNCHANGED <<quantizer, colors, maxColors, buckets, iteration>>
    /\ UNCHANGED <<rvars, avars, xvars>>

\* quantizeColorsMedianCut: a box holding undefined makes the next read throw
FallbackThrow ==
    /\ quantizer = "fallback" /\ qpc = "split"
    /\ fallbackThrows(buckets)
    /\ qpc' = "threw"
    /\ UNCHANGED <<quantizer, colors, maxColors, buckets, iteration, qPalette>>
    /\ UNCHANGED <<rvars, avars, xvars>>

NextQuant ==
    \/ WorkerSplit
    \/ WorkerAverage
    \/ FallbackSplit
    \/ FallbackAverage
    \/ FallbackThrow

SpecQuant == InitQuant /\ [][NextQuant]_vars

\* ------------------------------------------------------------ claims on the quantizer
DistinctColors == {colors[i] : i \in 1..Len(colors)}

C4_AtMostDistinctInputs ==
    qpc = "done" => Len(qPalette) <= Cardinality(DistinctColors)

\* C5: no two entries of a returned palette have the same hex value.
C5_NoDuplicateColours ==
    qpc = "done" =>
        \A i, j \in 1..Len(qPalette) : qPalette[i] = qPalette[j] => i = j

\* C6: in both quantizers every bucket holds at least one colour after every
\* split, so no bucket is empty when the palette is averaged.
C6_NoEmptyBucket ==
    \A i \in 1..Len(buckets) : buckets[i] # <<>>

\* split iterations a run has performed: the worker adds one bucket per
\* iteration, the fallback counts them
iterationsDone == IF quantizer = "worker" THEN Len(buckets) - 1 ELSE iteration

Splittable(bs) == \E i \in 1..Len(bs) : Len(bs[i]) >= 2

\* C24: a split iteration is performed only while the bucket count is below
\* maxColors (at least 2) and some bucket holds 2 colours or more, and no run
\* performs more than 20 of them.
C24_SplitLoopBounded ==
    [][(WorkerSplit \/ FallbackSplit) =>
        /\ Len(buckets) < Max2(maxColors, 2)
        /\ Splittable(buckets)
        /\ iterationsDone' <= 20]_vars

\* range of channel ch over a bucket: largest minus smallest value
ChanRange(b, ch) ==
    LET S == {b[k][ch] : k \in 1..Len(b)}
    IN  (CHOOSE m \in S : \A v \in S : v <= m) - (CHOOSE m \in S : \A v \in S : m <= v)

\* ch is the first channel (R, G, B) on which the bucket's range is largest
WidestChannel(b, ch) ==
    \A c \in 1..3 : /\ ChanRange(b, c) <= ChanRange(b, ch)
                     /\ (c < ch => ChanRange(b, c) < ChanRange(b, ch))

BucketRange(b) == CHOOSE r \in {ChanRange(b, c) : c \in 1..3} : \A c \in 1..3 : ChanRange(b, c) <= r

\* bucket i is the first with the largest range among those of 2 colours or more
WidestBucket(bs, i) ==
    /\ Len(bs[i]) >= 2
    /\ \A j \in 1..Len(bs) : Len(bs[j]) >= 2 =>
          /\ BucketRange(bs[j]) <= BucketRange(bs[i])
          /\ (j < i => BucketRange(bs[j]) < BucketRange(bs[i]))

Occurrences(c, q) == Cardinality({k \in 1..Len(q) : q[k] = c})

\* lo and hi hold the colours of b between them, none of lo above any of hi
\* on channel ch
SplitAlong(b, ch, lo, hi) ==
    /\ lo # <<>> /\ hi # <<>>
    /\ \A k \in 1..Len(b) : Occurrences(b[k], lo \o hi) = Occurrences(b[k], b)
    /\ Len(lo) + Len(hi) = Len(b)
    /\ \A k \in 1..Len(lo), l \in 1..Len(hi) : lo[k][ch] <= hi[l][ch]

\* C25: each iteration of the worker's loop splits the first bucket of
\* largest single-channel range among those holding 2 colours or more,
\* along the first of R, G, B on which that bucket's range is largest, and
\* leaves every other bucket as it was.
C25_SplitsWidestBucket ==
    [][WorkerSplit =>
        \E i \in 1..Len(buckets), ch \in 1..3 :
            /\ WidestBucket(buckets, i)
            /\ WidestChannel(buckets[i], ch)
            /\ Len(buckets') = Len(buckets) + 1
            /\ SplitAlong(buckets[i], ch, buckets'[i], buckets'[i + 1])
            /\ \A j \in 1..Len(buckets) :
                  /\ (j < i => buckets'[j] = buckets[j])
                  /\ (j > i => buckets'[j + 1] = buckets[j])]_vars

\* a worker run whose input has equal red and blue ranges has split twice,
\* the second time choosing between two buckets of 2 colours or more
C25_Witness ==
    /\ quantizer = "worker" /\ Len(buckets) >= 3
    /\ Len(colors) >= 4
    /\ ChanRange(colors, 1) = ChanRange(colors, 3) /\ ChanRange(colors, 1) > 0

HexChars == {Hash, 10, 15, BadChar}

RECURSIVE Strings(_)
\* the strings over HexChars of length n or less
Strings(n) ==
    IF n = 0 THEN {<<>>}
    ELSE Strings(n - 1) \cup {Append(w, c) : w \in {v \in Strings(n - 1) : Len(v) = n - 1},
                                            c \in HexChars}

InitHex ==
    /\ hexFn \in {"shared", "worker"}
    /\ hexIn \in Strings(MaxHexLen)
    /\ hexOut = <<>>
    /\ QuantIdle
    /\ ResizeIdle
    /\ AppIdle
    /\ DitherIdle
    /\ DesignerIdle

\* hexToRgb of colorUtils.js (and of app.js)
SharedHexToRgb ==
    /\ hexFn = "shared" /\ hexOut = <<>>
    /\ hexOut' = hexToRgb(hexIn)
    /\ UNCHANGED <<hexFn, hexIn>>
    /\ UNCHANGED <<qvars, rvars, avars, dvars, gvars>>

\* hexToRgb of the image worker
WorkerHexToRgb ==
    /\ hexFn = "worker" /\ hexOut = <<>>
    /\ hexOut' = workerHexToRgb(hexIn)
    /\ UNCHANGED <<hexFn, hexIn>>
    /\ UNCHANGED <<qvars, rvars, avars, dvars, gvars>>

NextHex ==
    \/ SharedHexToRgb
    \/ WorkerHexToRgb

SpecHex == InitHex /\ [][NextHex]_vars

\* ------------------------------------------------------------ claims on hexToRgb
\* six hex digits with an optional leading '#'
WellFormedHex(w) ==
    \/ Len(w) = 6 /\ \A i \in 1..6 : w[i] \in 0..15
    \/ Len(w) = 7 /\ w[1] = Hash /\ \A i \in 2..7 : w[i] \in 0..15

\* C23: every hexToRgb of the pipeline returns white {255, 255, 255} for a
\* string that is not six hex digits with an optional leading '#'.
C23_MalformedGivesWhite ==
    (hexOut # <<>> /\ ~WellFormedHex(hexIn)) => hexOut = <<255, 255, 255>>

\* ------------------------------------------------------------ dithering passes
\* opaque tones and the transparent pixel a pass is run on
Tones == {<<100, 100, 100, 255>>, <<200, 200, 200, 255>>, <<60, 130, 250, 255>>}

\* the palettes of a pass: black and white, in either order
DitherPalettes == {<<rgbToHex(0, 0, 0), rgbToHex(255, 255, 255)>>,
                   <<rgbToHex(255, 255, 255), rgbToHex(0, 0, 0)>>}

\* one buffer under both names (dithered = pixels): a write to `dithered`
\* shows in `pixels`
pixelsShared(pixels, work) == work

\* new Uint8Array(pixels) allocates a buffer of its own: `pixels` keeps its
\* values whatever is written to `dithered`
pixelsAfter(pixels, work) == pixels

\* w x h bitmaps of one tone, with at most one transparent pixel
DitherBitmaps ==
    {[width |-> w, height |-> h,
      data |-> [k \in 1..(w * h) |-> IF k = t THEN ClearGreenPixel ELSE tone]] :
        w \in 1..MaxDitherSide, h \in 1..MaxDitherSide, tone \in Tones,
        t \in 0..(MaxDitherSide * MaxDitherSide)}

\* quantizeColorsOptimized calls mapPixelsWithDithering(pixels, palette,
\* Math.sqrt(numPixels)); dithered = new Uint8Array(pixels)
InitDither ==
    /\ ditherIn \in DitherBitmaps
    /\ ditherPalette \in DitherPalettes
    /\ dithered = ditherIn.data
    /\ ditherOut = <<>>
    /\ ditherPos = 0
    /\ dpc = "pass"
    /\ QuantIdle
    /\ ResizeIdle
    /\ AppIdle
    /\ HexIdle
    /\ DesignerIdle

\* the loops run over y < height, x < width with width = Math.sqrt(n): a
\* side x side layout for a square n, else floor(width) + 1 values of x and of y
layoutSide(n) == IF IsSquare(n) THEN ISqrt(n) ELSE ISqrt(n) + 1

\* one iteration of the inner loop.  In a layout of non-integer width only
\* row 0 has integer indices and only the right neighbour is written; any
\* later read is undefined, palette[0] is pushed and nothing is written
DitherStep ==
    /\ dpc = "pass"
    /\ ditherPos < layoutSide(Len(dithered)) * layoutSide(Len(dithered))
    /\ LET n == Len(dithered)
           side == layoutSide(n)
           x == ditherPos % side
           y == ditherPos \div side
           paletteRGB == paletteToRGB(ditherPalette)
       IN  IF ~IsSquare(n) /\ y > 0
           THEN /\ ditherOut' = Append(ditherOut,
                                    ditherPalette[findNearestColor(Undefined, paletteRGB)])
                /\ dithered' = dithered
           ELSE LET old == dithered[ditherPos + 1]
                    h == IF IsSquare(n) THEN side ELSE 1
                    nearest == findNearestColor(old, paletteRGB)
                    new == paletteRGB[nearest]
                    err == <<old[1] - new[1], old[2] - new[2], old[3] - new[3]>>
                    w1 == distributeError(dithered, side, h, x + 1, y, err, 7)
                    w2 == distributeError(w1, side, h, x - 1, y + 1, err, 3)
                    w3 == distributeError(w2, side, h, x, y + 1, err, 5)
                    w4 == distributeError(w3, side, h, x + 1, y + 1, err, 1)
                IN  IF old[4] < AlphaThreshold
                    THEN /\ ditherOut' = Append(ditherOut, Null)
                         /\ dithered' = dithered
                    ELSE /\ ditherOut' = Append(ditherOut, ditherPalette[nearest])
                         /\ dithered' = w4
    /\ ditherPos' = ditherPos + 1
    /\ ditherIn' = [ditherIn EXCEPT !.data = pixelsAfter(@, dithered')]
    /\ UNCHANGED <<ditherPalette, dpc>>
    /\ UNCHANGED <<qvars, rvars, avars, hvars, gvars>>

\* both loops are left
DitherDone ==
    /\ dpc = "pass"
    /\ ditherPos = layoutSide(Len(dithered)) * layoutSide(Len(dithered))
    /\ dpc' = "done"
    /\ UNCHANGED <<ditherIn, ditherPalette, dithered, ditherOut, ditherPos>>
    /\ UNCHANGED <<qvars, rvars, avars, hvars, gvars>>

NextDither ==
    \/ DitherStep
    \/ DitherDone

SpecDither == InitDither /\ [][NextDither]_vars

\* ------------------------------------------------------------ claims on dithering
\* sixteenths of the error that pixel j (0-based) of a W-wide bitmap is due
\* from pixel k: 7 right, 3 below left, 5 below, 1 below right, else none
sixteenths(W, k, j) ==
    LET dx == (j % W) - (k % W)
        dy == (j \div W) - (k \div W)
    IN  IF dy = 0 /\ dx = 1 THEN 7
        ELSE IF dy = 1 /\ dx = 0 - 1 THEN 3
        ELSE IF dy = 1 /\ dx = 0 THEN 5
        ELSE IF dy = 1 /\ dx = 1 THEN 1
        ELSE 0

\* a working value after err * wn / 16 is added: rounded, kept within 0..255
diffused(v, err, wn) ==
    LET sum == RoundDiv(16 * v + err * wn, 16)
    IN  IF sum < 0 THEN 0 ELSE IF sum > 255 THEN 255 ELSE sum

\* C26: the k-th iteration of a pass handles pixel k of the bitmap; when the
\* pixel is opaque, its error (working value minus chosen palette value)
\* reaches exactly its right, below-left, below and below-right neighbours
\* in the bitmap with weights 7/16, 3/16, 5/16, 1/16, clamped to 0..255,
\* and every other working value, alpha included, stays as it was; a
\* transparent pixel changes nothing.
C26_ErrorDiffusion ==
    [][(DitherStep /\ ditherPos < Len(dithered)) =>
        LET k == ditherPos
            old == dithered[k + 1]
            chosen == ditherOut'[k + 1]
        IN  IF old[4] < AlphaThreshold
            THEN chosen = Null /\ dithered' = dithered
            ELSE /\ chosen # Null
                 /\ \A j \in 0..(Len(dithered) - 1) :
                       LET wn == sixteenths(ditherIn.width, k, j)
                           new == hexToRgb(chosen)
                       IN  dithered'[j + 1] =
                             IF wn = 0 THEN dithered[j + 1]
                             ELSE <<diffused(dithered[j + 1][1], old[1] - new[1], wn),
                                    diffused(dithered[j + 1][2], old[2] - new[2], wn),
                                    diffused(dithered[j + 1][3], old[3] - new[3], wn),
                                    dithered[j + 1][4]>>]_vars

\* two bitmaps of the same size hold the same pixel values
SameBitmap(a, b) ==
    /\ a.width = b.width /\ a.height = b.height
    /\ Len(a.data) = Len(b.data)
    /\ \A k \in 1..Len(a.data) : a.data[k] = b.data[k]

DefaultGridSide == 24

\* the grid sizes handleResizeGrid accepts
MinGrid == 4
MaxGrid == 80

\* '#a8d8ea', the first default colour and the value of an empty colour input
SkyBlue == rgbToHex(168, 216, 234)

\* initPalette: the five default colours
DefaultColors ==
    <<[hex |-> SkyBlue, label |-> "Sky Blue"],
      [hex |-> rgbToHex(212, 197, 249), label |-> "Lavender"],
      [hex |-> rgbToHex(255, 192, 203), label |-> "Soft Pink"],
      [hex |-> rgbToHex(255, 228, 181), label |-> "Peach"],
      [hex |-> rgbToHex(193, 255, 193), label |-> "Mint Green"]>>

\* `Color ${n}`
ColorLabel(n) ==
    <<"Color 1", "Color 2", "Color 3", "Color 4", "Color 5", "Color 6", "Color 7",
      "Color 8", "Color 9", "Color 10", "Color 11", "Color 12">>[n]

\* the colour objects reachable from `state`
liveIds ==
    {palette[i].id : i \in 1..Len(palette)}
        \cup {selectedColor[i].id : i \in 1..Len(selectedColor)}

\* the identities of k newly created objects: none is an object in use
RECURSIVE Fresh(_, _, _)
Fresh(k, live, n) ==
    IF k = 0 THEN <<>>
    ELSE IF n \in live THEN Fresh(k, live, n + 1)
    ELSE <<n>> \o Fresh(k - 1, live, n + 1)

\* an array literal of new {hex, label} objects
newObjects(entries, live) ==
    LET ids == Fresh(Len(entries), live, 1)
    IN  Tuple([i \in 1..Len(entries) |->
                [id |-> ids[i], hex |-> entries[i].hex, label |-> entries[i].label]])

\* two references to the same object (===, indexOf)
SameObject(a, b) == a.id = b.id

\* state.palette.indexOf(color), from 1; 0 for -1
indexOf(pal, color) ==
    IF \E i \in 1..Len(pal) : SameObject(pal[i], color)
    THEN CHOOSE i \in 1..Len(pal) :
            /\ SameObject(pal[i], color)
            /\ \A j \in 1..(i - 1) : ~SameObject(pal[j], color)
    ELSE 0

\* initGrid: gridHeight rows of gridWidth null cells
emptyGrid(w, h) == Tuple([y \in 1..h |-> Tuple([x \in 1..w |-> Null])])

\* a Set built by add() in iteration order: first occurrences only
RECURSIVE insertionOrder(_, _)
insertionOrder(q, seen) ==
    IF q = <<>> THEN <<>>
    ELSE IF Head(q) \in seen THEN insertionOrder(Tail(q), seen)
    ELSE <<Head(q)>> \o insertionOrder(Tail(q), seen \cup {Head(q)})

\* handleSendToGrid's uniqueColors: the non-null cells, row by row
uniqueColors(pixelData) == insertionOrder(SelectSeq(Flatten(pixelData), IsPixel), {})

\* a bitmap with no opaque pixel
ImgAllClear == [width |-> 1, height |-> 1, data |-> <<ClearGreenPixel>>]

\* results processing has stored before the designer is used
DesignerResults ==
    {processImageFallback(img, MinTarget, MinTarget, MinColors).result :
        img \in {ImgRedBlue, ImgClear, ImgAllClear}}

\* JSON.stringify of the design and JSON.parse of it: the objects' values,
\* none of their identities
designOf(w, h, grid, pal, sel) ==
    [gridWidth |-> w, gridHeight |-> h, gridData |-> grid,
     palette |-> Tuple([i \in 1..Len(pal) |-> [hex |-> pal[i].hex, label |-> pal[i].label]]),
     selectedColorHex |-> IF sel = <<>> THEN Null ELSE sel[1].hex]

\* the characters of a size field: digits, and one that is no digit
Dot == 10
SizeTexts == {<<>>, <<Dot>>, <<3>>, <<4>>, <<5>>, <<4, Dot, 9>>, <<8, 1>>}

\* parseInt(text, 10): the leading digits, NaN when there is none
RECURSIVE leadingDigits(_, _)
leadingDigits(text, acc) ==
    IF text = <<>> \/ Head(text) = Dot THEN acc
    ELSE leadingDigits(Tail(text), 10 * acc + Head(text))

parseInt(text) ==
    IF text = <<>> \/ Head(text) = Dot THEN NaN ELSE leadingDigits(text, 0)

isNaN(v) == v = NaN

\* the cells the user clicks: <<row, col>>
ClickCells == {<<0, 0>>, <<1, 2>>}

\* the state after initApp found no saved design: initPalette, initGrid; a
\* processing result may be stored
InitDesigner ==
    /\ palette = newObjects(DefaultColors, {})
    /\ selectedColor = <<newObjects(DefaultColors, {})[1]>>
    /\ gridWidth = DefaultGridSide
    /\ gridHeight = DefaultGridSide
    /\ gridData = emptyGrid(DefaultGridSide, DefaultGridSide)
    /\ gridShared = FALSE
    /\ saved = <<>>
    /\ steps = 0
    /\ processedImageData \in {<<>>} \cup {<<r>> : r \in DesignerResults}
    /\ sendToGridEnabled = (processedImageData # <<>>)
    /\ uploadedImage = NoImage
    /\ form = BaseForm
    /\ imageWorker = FALSE
    /\ workerReady = FALSE
    /\ inbox = <<>>
    /\ outbox = <<>>
    /\ notification = "none"
    /\ budget = 0
    /\ QuantIdle
    /\ ResizeIdle
    /\ HexIdle
    /\ DitherIdle

\* what no designer operation touches; every operation counts as one step
designerStep ==
    /\ steps < MaxSteps
    /\ steps' = steps + 1
    /\ UNCHANGED <<uploadedImage, form, imageWorker, workerReady, inbox, outbox,
                   sendToGridEnabled, budget>>
    /\ UNCHANGED <<qvars, rvars, hvars, dvars>>

\* state.gridData[row][col] = v: the array written is also
\* processedImageData.pixelData when handleSendToGrid made them one array
writeCell(row, col, v) ==
    /\ gridData' = [gridData EXCEPT ![row + 1][col + 1] = v]
    /\ processedImageData' =
            IF gridShared
            THEN <<[processedImageData[1] EXCEPT !.pixelData = gridData']>>
            ELSE processedImageData

\* handleCellClick(row, col) on a rendered cell
HandleCellClick ==
    /\ designerStep
    /\ \E cell \in ClickCells :
        /\ cell[1] < Min2(gridHeight, Len(gridData))
        /\ cell[2] < Min2(gridWidth, Len(gridData[cell[1] + 1]))
        /\ IF selectedColor = <<>>
           THEN /\ notification' = "Please add a color to the palette first."
                /\ UNCHANGED <<gridData, processedImageData>>
           ELSE /\ writeCell(cell[1], cell[2], selectedColor[1].hex)
                /\ UNCHANGED notification
    /\ UNCHANGED <<palette, gridWidth, gridHeight, gridShared, selectedColor, saved>>

\* handleCellErase(row, col) on a rendered cell
HandleCellErase ==
    /\ designerStep
    /\ \E cell \in ClickCells :
        /\ cell[1] < Min2(gridHeight, Len(gridData))
        /\ cell[2] < Min2(gridWidth, Len(gridData[cell[1] + 1]))
        /\ writeCell(cell[1], cell[2], Null)
    /\ UNCHANGED <<palette, gridWidth, gridHeight, gridShared, selectedColor, saved,
                   notification>>

\* state.gridData.some((row) => row.some((cell) => cell !== null))
hasContent == \E y \in 1..Len(gridData) : \E x \in 1..Len(gridData[y]) : gridData[y][x] # Null

\* grid.js: newWidth > 80 is not among the tests
gridRejects(newWidth, newHeight) ==
    \/ isNaN(newWidth) \/ isNaN(newHeight)
    \/ newWidth < MinGrid \/ newHeight > MaxGrid
    \/ newHeight < MinGrid \/ newHeight > MaxGrid

\* app.js
appRejects(newWidth, newHeight) ==
    \/ isNaN(newWidth) \/ isNaN(newHeight)
    \/ newWidth < MinGrid \/ newHeight < MinGrid
    \/ newWidth > MaxGrid \/ newHeight > MaxGrid

\* the rest of handleResizeGrid, the same in both files
resizeGrid(rejected, newWidth, newHeight, confirmed) ==
    IF rejected
    THEN /\ notification' = "Grid size must be between 4 and 80."
         /\ UNCHANGED <<gridWidth, gridHeight, gridData, gridShared>>
    ELSE IF hasContent /\ ~confirmed
    THEN UNCHANGED <<gridWidth, gridHeight, gridData, gridShared, notification>>
    ELSE /\ gridWidth' = newWidth
         /\ gridHeight' = newHeight
         /\ gridData' = emptyGrid(newWidth, newHeight)
         /\ gridShared' = FALSE
         /\ UNCHANGED notification

\* handleResizeGrid of grid.js on the texts of the two size fields
HandleResizeGrid ==
    /\ designerStep
    /\ \E widthInput \in SizeTexts, heightInput \in SizeTexts, confirmed \in BOOLEAN :
        LET newWidth == parseInt(widthInput)
            newHeight == parseInt(heightInput)
        IN  resizeGrid(gridRejects(newWidth, newHeight), newWidth, newHeight, confirmed)
    /\ UNCHANGED <<palette, processedImageData, selectedColor, saved>>

\* handleResizeGrid of app.js on the texts of the two size fields
AppHandleResizeGrid ==
    /\ designerStep
    /\ \E widthInput \in SizeTexts, heightInput \in SizeTexts, confirmed \in BOOLEAN :
        LET newWidth == parseInt(widthInput)
            newHeight == parseInt(heightInput)
        IN  resizeGrid(appRejects(newWidth, newHeight), newWidth, newHeight, confirmed)
    /\ UNCHANGED <<palette, processedImageData, selectedColor, saved>>

\* selectColor(color), from the click on a swatch of the rendered palette
SelectColor ==
    /\ designerStep
    /\ \E i \in 1..Len(palette) : selectedColor' = <<palette[i]>>
    /\ UNCHANGED <<palette, processedImageData, gridWidth, gridHeight, gridData,
                   gridShared, saved, notification>>

\* addColor: the colour input holds a colour or nothing, the label input nothing
AddColor ==
    /\ designerStep
    /\ \E value \in {<<>>, rgbToHex(0, 0, 0)} :
        LET hex == IF value = <<>> THEN SkyBlue ELSE value
            label == ColorLabel(Len(palette) + 1)
        IN  /\ palette' = palette \o newObjects(<<[hex |-> hex, label |-> label]>>, liveIds)
            /\ selectedColor' = <<palette'[Len(palette')]>>
    /\ UNCHANGED <<processedImageData, gridWidth, gridHeight, gridData, gridShared,
                   saved, notification>>

\* the array after splice(index, 1), index from 1
splice(pal, index) ==
    Tuple([i \in 1..(Len(pal) - 1) |-> IF i < index THEN pal[i] ELSE pal[i + 1]])

\* removeColor(color), from the remove button of a swatch; the button is
\* disabled while the palette has one colour
RemoveColor ==
    /\ designerStep
    /\ Len(palette) # 1
    /\ \E i \in 1..Len(palette) :
        LET color == palette[i]
            index == indexOf(palette, color)
        IN  /\ palette' = IF index > 0 THEN splice(palette, index) ELSE palette
            /\ selectedColor' =
                    IF selectedColor # <<>> /\ SameObject(selectedColor[1], color)
                    THEN (IF Len(palette') > 0 THEN <<palette'[1]>> ELSE <<>>)
                    ELSE selectedColor
    /\ UNCHANGED <<processedImageData, gridWidth, gridHeight, gridData, gridShared,
                   saved, notification>>

\* handleSendToGrid (app.js and storage.js)
HandleSendToGrid ==
    /\ designerStep
    /\ IF processedImageData = <<>>
       THEN /\ notification' = "Please process an image first."
            /\ UNCHANGED <<palette, gridWidth, gridHeight, gridData, gridShared,
                           selectedColor>>
       ELSE LET pixelData == processedImageData[1].pixelData
                hexes == uniqueColors(pixelData)
            IN  /\ gridWidth' = processedImageData[1].width
                /\ gridHeight' = processedImageData[1].height
                /\ gridData' = pixelData
                /\ gridShared' = TRUE
                /\ palette' = newObjects(
                        Tuple([i \in 1..Len(hexes) |->
                                [hex |-> hexes[i], label |-> ColorLabel(i)]]), liveIds)
                /\ selectedColor' = IF Len(palette') > 0 THEN <<palette'[1]>>
                                    ELSE selectedColor
                /\ notification' = "Pattern applied to grid! Ready to export."
    /\ UNCHANGED <<processedImageData, saved>>

\* saveDesign: the design goes to localStorage (and, as the newest
\* session, to the recent sessions)
SaveDesign ==
    /\ designerStep
    /\ saved' = <<designOf(gridWidth, gridHeight, gridData, palette, selectedColor)>>
    /\ notification' = "Design saved!"
    /\ UNCHANGED <<palette, processedImageData, gridWidth, gridHeight, gridData,
                   gridShared, selectedColor>>

\* v || d for a number
orElse(v, d) == IF v = 0 \/ isNaN(v) THEN d ELSE v

\* state.palette.find((c) => c.hex === hex): <<>> for undefined
find(pal, hex) ==
    IF \E i \in 1..Len(pal) : pal[i].hex = hex
    THEN <<pal[CHOOSE i \in 1..Len(pal) :
                /\ pal[i].hex = hex
                /\ \A j \in 1..(i - 1) : pal[j].hex # hex]>>
    ELSE <<>>

\* promptLoadDesign, confirmed: loadDesign on the stored design
LoadDesign ==
    /\ designerStep
    /\ IF saved = <<>>
       THEN /\ notification' = "No saved design found."
            /\ UNCHANGED <<palette, gridWidth, gridHeight, gridData, gridShared,
                           selectedColor>>
       ELSE LET design == saved[1]
                restored == IF design.selectedColorHex # Null
                            THEN find(palette', design.selectedColorHex)
                            ELSE selectedColor
            IN  /\ gridWidth' = orElse(design.gridWidth, DefaultGridSide)
                /\ gridHeight' = orElse(design.gridHeight, DefaultGridSide)
                /\ gridData' = design.gridData
                /\ gridShared' = FALSE
                /\ palette' = newObjects(design.palette, liveIds)
                /\ selectedColor' = IF restored = <<>> /\ Len(palette') > 0
                                    THEN <<palette'[1]>> ELSE restored
                /\ notification' = "Design loaded!"
    /\ UNCHANGED <<processedImageData, saved>>

\* loadRecentSession(session) on the newest session read back from storage
LoadRecentSession ==
    /\ designerStep
    /\ saved # <<>>
    /\ LET session == saved[1]
       IN  /\ gridWidth' = session.gridWidth
           /\ gridHeight' = session.gridHeight
           /\ gridData' = session.gridData
           /\ gridShared' = FALSE
           /\ palette' = newObjects(session.palette, liveIds)
           /\ selectedColor' = IF Len(palette') > 0 THEN <<palette'[1]>> ELSE <<>>
           /\ notification' = "Design loaded!"
    /\ UNCHANGED <<processedImageData, saved>>

\* handleClearDesign, confirmed: initPalette, initGrid on the sizes in
\* force, then both sizes are reset
HandleClearDesign ==
    /\ designerStep
    /\ palette' = newObjects(DefaultColors, liveIds)
    /\ selectedColor' = <<palette'[1]>>
    /\ gridData' = emptyGrid(gridWidth, gridHeight)
    /\ gridShared' = FALSE
    /\ gridWidth' = DefaultGridSide
    /\ gridHeight' = DefaultGridSide
    /\ notification' = "Grid cleared."
    /\ UNCHANGED <<processedImageData, saved>>

NextDesigner ==
    \/ HandleCellClick
    \/ HandleCellErase
    \/ HandleResizeGrid
    \/ AppHandleResizeGrid
    \/ SelectColor
    \/ AddColor
    \/ RemoveColor
    \/ HandleSendToGrid
    \/ SaveDesign
    \/ LoadDesign
    \/ LoadRecentSession
    \/ HandleClearDesign

SpecDesigner == InitDesigner /\ [][NextDesigner]_vars

\* ------------------------------------------------------------ claims on the designer
\* C21: painting or erasing a grid cell leaves the stored processing
\* result (state.processedImageData, its pixelData included) as it was.
C21_PaintLeavesResult ==
    [][(HandleCellClick \/ HandleCellErase) => UNCHANGED processedImageData]_vars

\* a grid size within [4, 80]
SizeInRange(v) == v \in MinGrid..MaxGrid

\* C27: a call of handleResizeGrid either leaves gridWidth, gridHeight and
\* gridData unchanged or sets both sizes to numbers within [4, 80]: a size
\* that is not a number or lies outside the range is never taken.
C27_ResizeRejectsBadSizes ==
    [][HandleResizeGrid =>
        \/ UNCHANGED <<gridWidth, gridHeight, gridData>>
        \/ SizeInRange(gridWidth') /\ SizeInRange(gridHeight')]_vars

\* C30: state.selectedColor is null or one of the objects of state.palette.
C30_SelectedInPalette ==
    \/ selectedColor = <<>>
    \/ \E i \in 1..Len(palette) : SameObject(palette[i], selectedColor[1])

====
